---- MODULE Spec2Model ----
(***************************************************************************)
(* gowatchrun: the watcher package (internal/watcher) and the executor     *)
(* callback.  Run resolves the requested event types, starts the           *)
(* coordinator goroutine (select over watcher.Events, the debounce timer   *)
(* and watcher.Errors) and registers the watches.                          *)
(*                                                                         *)
(* Strings that the code inspects character by character (event type       *)
(* names, paths, glob patterns) are sequences of one-character strings.    *)
(* An fsnotify.Op bitmask is the set of the kinds whose bit is set.        *)
(***************************************************************************)
EXTENDS Integers, Sequences, FiniteSets, TLC

\* ------------------------------------------------------------------------
\* Bounds of the model
\* ------------------------------------------------------------------------
\* Largest value of the clock.
MaxTime == 4
\* Number of notifications the notification source delivers in one run.
MaxEvents == 2
\* Number of errors the notification source delivers in one run.
MaxErrors == 1
\* Longest list of requested event type names (classifier specification).
MaxTypes == 2
\* Notifications the source holds ready for the goroutine at one time.
MaxQueue == 2

\* ------------------------------------------------------------------------
\* Strings
\* ------------------------------------------------------------------------
Nil == "nil"

UpperChars == <<"A","B","C","D","E","F","G","H","I","J","K","L","M",
                "N","O","P","Q","R","S","T","U","V","W","X","Y","Z">>
LowerChars == <<"a","b","c","d","e","f","g","h","i","j","k","l","m",
                "n","o","p","q","r","s","t","u","v","w","x","y","z">>

\* strings.ToLower on one character.
LowerChar(c) ==
  IF \E i \in 1..Len(UpperChars) : UpperChars[i] = c
  THEN LowerChars[CHOOSE i \in 1..Len(UpperChars) : UpperChars[i] = c]
  ELSE c

\* strings.ToLower
ToLower(s) == [i \in 1..Len(s) |-> LowerChar(s[i])]

\* ------------------------------------------------------------------------
\* Event kinds (fsnotify.Op bits)
\* ------------------------------------------------------------------------
Create     == "CREATE"
Write      == "WRITE"
Remove     == "REMOVE"
Rename     == "RENAME"
Chmod      == "CHMOD"
\* fsnotify.Op(1<<5) .. fsnotify.Op(1<<8)
OpOpen       == "OPEN"
OpRead       == "READ"
OpCloseWrite == "CLOSE_WRITE"
OpCloseRead  == "CLOSE_READ"

PortableKinds   == {Create, Write, Remove, Rename, Chmod}
UnportableKinds == {OpOpen, OpRead, OpCloseWrite, OpCloseRead}
AllKinds        == PortableKinds \cup UnportableKinds

\* runtime.GOOS values of the builds the release targets.
GoosValues == {"linux", "freebsd", "darwin", "windows"}

\* isUnportableSupported
isUnportableSupportedEverywhere(goos) == TRUE
isUnportableSupported(goos) == goos = "linux" \/ goos = "freebsd"

\* ------------------------------------------------------------------------
\* processEventTypes
\* ------------------------------------------------------------------------
StrAll        == <<"a","l","l">>
StrCreate     == <<"c","r","e","a","t","e">>
StrWrite      == <<"w","r","i","t","e">>
StrRemove     == <<"r","e","m","o","v","e">>
StrRename     == <<"r","e","n","a","m","e">>
StrChmod      == <<"c","h","m","o","d">>
StrOpen       == <<"o","p","e","n">>
StrRead       == <<"r","e","a","d">>
StrCloseWrite == <<"c","l","o","s","e","w","r","i","t","e">>
StrCloseRead  == <<"c","l","o","s","e","r","e","a","d">>

\* The first loop: is some name "all", compared in lower case.
HasAllCaseSensitive(types) == \E i \in 1..Len(types) : types[i] = StrAll
HasAll(types) == \E i \in 1..Len(types) : ToLower(types[i]) = StrAll

\* The kind a lower-case name selects in the switch, Nil for the default case.
KindOfNameDefaultCreate(t) ==
  CASE t = StrCreate     -> Create
    [] t = StrWrite      -> Write
    [] t = StrRemove     -> Remove
    [] t = StrRename     -> Rename
    [] t = StrChmod      -> Chmod
    [] t = StrOpen       -> OpOpen
    [] t = StrRead       -> OpRead
    [] t = StrCloseWrite -> OpCloseWrite
    [] t = StrCloseRead  -> OpCloseRead
    [] OTHER             -> Create

KindOfName(t) ==
  CASE t = StrCreate     -> Create
    [] t = StrWrite      -> Write
    [] t = StrRemove     -> Remove
    [] t = StrRename     -> Rename
    [] t = StrChmod      -> Chmod
    [] t = StrOpen       -> OpOpen
    [] t = StrRead       -> OpRead
    [] t = StrCloseWrite -> OpCloseWrite
    [] t = StrCloseRead  -> OpCloseRead
    [] OTHER             -> Nil

\* The second loop, from index i on with the lookup built so far: each name
\* adds its kind; a restricted kind on a platform without it calls os.Exit(1);
\* an unknown name is logged and ignored.
RECURSIVE ResolveNamesLastWins(_, _, _, _)
ResolveNamesLastWins(types, i, lookup, goos) ==
  IF i > Len(types) THEN [exit |-> FALSE, lookup |-> lookup]
  ELSE LET k == KindOfName(ToLower(types[i])) IN
       IF k = Nil THEN ResolveNamesLastWins(types, i + 1, lookup, goos)
       ELSE IF k \in UnportableKinds /\ ~isUnportableSupported(goos)
            THEN [exit |-> TRUE, lookup |-> lookup]
            ELSE ResolveNamesLastWins(types, i + 1, {k}, goos)

RECURSIVE ResolveNames(_, _, _, _)
ResolveNames(types, i, lookup, goos) ==
  IF i > Len(types) THEN [exit |-> FALSE, lookup |-> lookup]
  ELSE LET k == KindOfName(ToLower(types[i])) IN
       IF k = Nil THEN ResolveNames(types, i + 1, lookup, goos)
       ELSE IF k \in UnportableKinds /\ ~isUnportableSupported(goos)
            THEN [exit |-> TRUE, lookup |-> lookup]
            ELSE ResolveNames(types, i + 1, lookup \cup {k}, goos)

\* processEventTypes: the map of allowed kinds (the set of its true keys), or
\* exit when os.Exit(1) was called.
processEventTypes(types, goos) ==
  IF HasAll(types)
  THEN [exit |-> FALSE,
        lookup |-> PortableKinds \cup
                   (IF isUnportableSupported(goos) THEN UnportableKinds ELSE {})]
  ELSE ResolveNames(types, 1, {}, goos)

\* ------------------------------------------------------------------------
\* path/filepath and strings helpers, for the '/' separator
\* ------------------------------------------------------------------------
Sep == "/"

\* The characters of the model's strings in ASCII order; Code is the position.
AsciiChars == <<"*", "-", ".", "/", "0", "1", "2", "?">> \o UpperChars \o
              <<"[", "\\", "]", "^", "_">> \o LowerChars
Code(c) == IF \E i \in 1..Len(AsciiChars) : AsciiChars[i] = c
           THEN CHOOSE i \in 1..Len(AsciiChars) : AsciiChars[i] = c
           ELSE 0

\* s[i:] with a 0-based i, as a Go slice expression.
From(s, i) == SubSeq(s, i + 1, Len(s))

Contains(s, c) == \E i \in 1..Len(s) : s[i] = c

\* Index (1-based) of the last occurrence of c in s, 0 when there is none.
LastIndex(s, c) ==
  IF Contains(s, c) THEN CHOOSE i \in 1..Len(s) :
                            s[i] = c /\ \A j \in (i+1)..Len(s) : s[j] # c
  ELSE 0

RECURSIVE StripTrailingSep(_)
StripTrailingSep(s) ==
  IF Len(s) > 0 /\ s[Len(s)] = Sep THEN StripTrailingSep(SubSeq(s, 1, Len(s) - 1))
  ELSE s

\* filepath.Base
Base(path) ==
  IF Len(path) = 0 THEN <<".">>
  ELSE LET p == StripTrailingSep(path)
           b == From(p, LastIndex(p, Sep))
       IN IF Len(b) = 0 THEN <<Sep>> ELSE b

\* filepath.Ext: the suffix of the last element from its final dot.
ExtFromFirstDot(path) ==
  LET last == From(path, LastIndex(path, Sep))
      d    == IF Contains(last, ".")
              THEN CHOOSE i \in 1..Len(last) :
                     last[i] = "." /\ \A j \in 1..(i - 1) : last[j] # "."
              ELSE 0
  IN IF d = 0 THEN <<>> ELSE From(last, d - 1)

Ext(path) ==
  LET last == From(path, LastIndex(path, Sep))
      d    == LastIndex(last, ".")
  IN IF d = 0 THEN <<>> ELSE From(last, d - 1)

HasSuffix(s, suffix) ==
  Len(s) >= Len(suffix) /\ From(s, Len(s) - Len(suffix)) = suffix

HasPrefix(s, prefix) ==
  Len(s) >= Len(prefix) /\ SubSeq(s, 1, Len(prefix)) = prefix

\* strings.TrimSuffix
TrimSuffix(s, suffix) ==
  IF HasSuffix(s, suffix) THEN SubSeq(s, 1, Len(s) - Len(suffix)) ELSE s

\* The elements of a path between separators (empty elements included).
RECURSIVE SplitPath(_, _)
SplitPath(s, cur) ==
  IF Len(s) = 0 THEN <<cur>>
  ELSE IF Head(s) = Sep THEN <<cur>> \o SplitPath(Tail(s), <<>>)
       ELSE SplitPath(Tail(s), Append(cur, Head(s)))

\* filepath.Clean on the elements: "" and "." are dropped, ".." removes the
\* element before it (or is kept at the start of a relative path).
RECURSIVE CleanElems(_, _, _)
CleanElems(elems, out, rooted) ==
  IF Len(elems) = 0 THEN out
  ELSE LET e == Head(elems) IN
       IF e = <<>> \/ e = <<".">> THEN CleanElems(Tail(elems), out, rooted)
       ELSE IF e = <<".", ".">>
            THEN IF Len(out) > 0 /\ out[Len(out)] # <<".", ".">>
                 THEN CleanElems(Tail(elems), SubSeq(out, 1, Len(out) - 1), rooted)
                 ELSE IF rooted THEN CleanElems(Tail(elems), out, rooted)
                      ELSE CleanElems(Tail(elems), Append(out, e), rooted)
            ELSE CleanElems(Tail(elems), Append(out, e), rooted)

RECURSIVE JoinElems(_)
JoinElems(elems) ==
  IF Len(elems) = 0 THEN <<>>
  ELSE IF Len(elems) = 1 THEN elems[1]
       ELSE elems[1] \o <<Sep>> \o JoinElems(Tail(elems))

\* filepath.Clean
Clean(path) ==
  LET rooted == Len(path) > 0 /\ path[1] = Sep
      body   == JoinElems(CleanElems(SplitPath(path, <<>>), <<>>, rooted))
  IN IF rooted THEN <<Sep>> \o body
     ELSE IF Len(body) = 0 THEN <<".">> ELSE body

\* filepath.Dir
Dir(path) == Clean(SubSeq(path, 1, LastIndex(path, Sep)))

\* filepath.Join of a directory and a file name.
Join(dir, name) ==
  IF Len(dir) = 0 /\ Len(name) = 0 THEN <<>>
  ELSE IF Len(dir) = 0 THEN Clean(name)
       ELSE IF Len(name) = 0 THEN Clean(dir)
            ELSE Clean(dir \o <<Sep>> \o name)

\* ------------------------------------------------------------------------
\* filepath.Match
\* ------------------------------------------------------------------------
RECURSIVE SkipStars(_)
SkipStars(p) == IF Len(p) > 0 /\ p[1] = "*" THEN SkipStars(Tail(p)) ELSE p

\* The scan of scanChunk: the 0-based index at which the chunk ends.
RECURSIVE ScanEnd(_, _, _)
ScanEnd(p, i, inrange) ==
  IF i >= Len(p) THEN i
  ELSE LET c == p[i + 1] IN
       IF c = "\\" THEN ScanEnd(p, IF i + 1 < Len(p) THEN i + 2 ELSE i + 1, inrange)
       ELSE IF c = "[" THEN ScanEnd(p, i + 1, TRUE)
       ELSE IF c = "]" THEN ScanEnd(p, i + 1, FALSE)
       ELSE IF c = "*" /\ ~inrange THEN i
       ELSE ScanEnd(p, i + 1, inrange)

\* scanChunk: the leading stars, the star-free chunk after them, the rest.
scanChunk(pattern) ==
  LET p == SkipStars(pattern)
      i == ScanEnd(p, 0, FALSE)
  IN [star |-> Len(pattern) > 0 /\ pattern[1] = "*",
      chunk |-> SubSeq(p, 1, i), rest |-> From(p, i)]

\* getEsc: one possibly escaped character of a character class.
getEsc(chunk) ==
  IF Len(chunk) = 0 \/ chunk[1] = "-" \/ chunk[1] = "]"
  THEN [err |-> TRUE, r |-> Nil, chunk |-> <<>>]
  ELSE LET c == IF chunk[1] = "\\" THEN Tail(chunk) ELSE chunk IN
       IF Len(c) = 0 THEN [err |-> TRUE, r |-> Nil, chunk |-> <<>>]
       ELSE [err |-> Len(c) = 1, r |-> c[1], chunk |-> Tail(c)]

\* The ranges of a character class up to the closing bracket.
RECURSIVE ParseRanges(_, _, _, _)
ParseRanges(chunk, r, match, nrange) ==
  IF Len(chunk) > 0 /\ chunk[1] = "]" /\ nrange > 0
  THEN [err |-> FALSE, chunk |-> Tail(chunk), match |-> match]
  ELSE LET lo == getEsc(chunk) IN
       IF lo.err THEN [err |-> TRUE, chunk |-> <<>>, match |-> FALSE]
       ELSE IF lo.chunk[1] = "-"
            THEN LET hi == getEsc(Tail(lo.chunk)) IN
                 IF hi.err THEN [err |-> TRUE, chunk |-> <<>>, match |-> FALSE]
                 ELSE ParseRanges(hi.chunk, r,
                        match \/ (Code(lo.r) <= Code(r) /\ Code(r) <= Code(hi.r)),
                        nrange + 1)
            ELSE ParseRanges(lo.chunk, r, match \/ (lo.r = r), nrange + 1)

\* matchChunk: match the star-free chunk at the start of s; after a failure
\* the chunk is still read to the end to report a malformed pattern.
RECURSIVE MatchChunkLoop(_, _, _)
MatchChunkLoop(chunk, s, failed0) ==
  IF Len(chunk) = 0
  THEN IF failed0 THEN [rest |-> <<>>, ok |-> FALSE, err |-> FALSE]
       ELSE [rest |-> s, ok |-> TRUE, err |-> FALSE]
  ELSE LET failed == failed0 \/ Len(s) = 0
           s1     == IF failed THEN s ELSE Tail(s)
       IN
       IF chunk[1] = "["
       THEN LET r       == IF failed THEN Nil ELSE s[1]
                c1      == Tail(chunk)
                negated == Len(c1) > 0 /\ c1[1] = "^"
                c2      == IF negated THEN Tail(c1) ELSE c1
                rg      == ParseRanges(c2, r, FALSE, 0)
            IN IF rg.err THEN [rest |-> <<>>, ok |-> FALSE, err |-> TRUE]
               ELSE MatchChunkLoop(rg.chunk, s1, failed \/ (rg.match = negated))
       ELSE IF chunk[1] = "?"
       THEN MatchChunkLoop(Tail(chunk), s1, failed \/ s[1] = Sep)
       ELSE IF chunk[1] = "\\"
       THEN IF Len(chunk) = 1 THEN [rest |-> <<>>, ok |-> FALSE, err |-> TRUE]
            ELSE MatchChunkLoop(Tail(Tail(chunk)), s1, failed \/ chunk[2] # s[1])
       ELSE MatchChunkLoop(Tail(chunk), s1, failed \/ chunk[1] # s[1])

matchChunk(chunk, s) == MatchChunkLoop(chunk, s, FALSE)

\* The check, made before Match reports a mismatch, that the rest of the
\* pattern is well formed.
RECURSIVE RestIsBad(_)
RestIsBad(pattern) ==
  IF Len(pattern) = 0 THEN FALSE
  ELSE LET sc == scanChunk(pattern) IN
       matchChunk(sc.chunk, <<>>).err \/ RestIsBad(sc.rest)

\* filepath.Match(pattern, name): [match, err].
RECURSIVE Match(_, _)
RECURSIVE StarSearch(_, _, _, _)
StarSearch(chunk, name, rest, i) ==
  IF i < Len(name) /\ name[i + 1] # Sep
  THEN LET m == matchChunk(chunk, From(name, i + 1)) IN
       IF m.ok
       THEN IF Len(rest) = 0 /\ Len(m.rest) > 0
            THEN StarSearch(chunk, name, rest, i + 1)
            ELSE Match(rest, m.rest)
       ELSE IF m.err THEN [match |-> FALSE, err |-> TRUE]
            ELSE StarSearch(chunk, name, rest, i + 1)
  ELSE [match |-> FALSE, err |-> RestIsBad(rest)]

Match(pattern, name) ==
  IF Len(pattern) = 0 THEN [match |-> Len(name) = 0, err |-> FALSE]
  ELSE LET sc == scanChunk(pattern) IN
       IF sc.star /\ Len(sc.chunk) = 0
       THEN [match |-> ~Contains(name, Sep), err |-> FALSE]
       ELSE LET m == matchChunk(sc.chunk, name) IN
            IF m.ok /\ (Len(m.rest) = 0 \/ Len(sc.rest) > 0)
            THEN Match(sc.rest, m.rest)
            ELSE IF m.err THEN [match |-> FALSE, err |-> TRUE]
                 ELSE IF sc.star THEN StarSearch(sc.chunk, name, sc.rest, 0)
                      ELSE [match |-> FALSE, err |-> RestIsBad(sc.rest)]

\* ------------------------------------------------------------------------
\* filterEvent
\* ------------------------------------------------------------------------
\* The pattern loop: a malformed pattern is logged and the next one tried.
RECURSIVE MatchesAnyPatternStopsAtBad(_, _)
MatchesAnyPatternStopsAtBad(patterns, fileName) ==
  IF Len(patterns) = 0 THEN FALSE
  ELSE LET m == Match(Head(patterns), fileName) IN
       IF m.err THEN FALSE
       ELSE IF m.match THEN TRUE
            ELSE MatchesAnyPatternStopsAtBad(Tail(patterns), fileName)

RECURSIVE MatchesAnyPatternBadMatches(_, _)
MatchesAnyPatternBadMatches(patterns, fileName) ==
  IF Len(patterns) = 0 THEN FALSE
  ELSE LET m == Match(Head(patterns), fileName) IN
       IF m.err THEN TRUE
       ELSE IF m.match THEN TRUE
            ELSE MatchesAnyPatternBadMatches(Tail(patterns), fileName)

RECURSIVE MatchesAnyPattern(_, _)
MatchesAnyPattern(patterns, fileName) ==
  IF Len(patterns) = 0 THEN FALSE
  ELSE LET m == Match(Head(patterns), fileName) IN
       IF m.err THEN MatchesAnyPattern(Tail(patterns), fileName)
       ELSE IF m.match THEN TRUE
            ELSE MatchesAnyPattern(Tail(patterns), fileName)

\* The EventData built by filterEvent for a notification and a label.
FilteredEventData(event, eventStr) ==
  LET fileName == Base(event.Name)
      ext      == Ext(fileName)
  IN [Path |-> event.Name, Name |-> fileName, Event |-> eventStr, Ext |-> ext,
      Dir |-> Dir(event.Name), BaseName |-> TrimSuffix(fileName, ext)]

\* The labels the kind loop can stop at: the allowed kinds the notification
\* has.  The loop ranges over a Go map, whose iteration order is not fixed.
TriggeredLabelsAnyAllowed(event, allowedEvents) ==
  IF event.Op \cap allowedEvents = {} THEN {} ELSE allowedEvents

TriggeredLabels(event, allowedEvents) == {op \in allowedEvents : op \in event.Op}

\* filterEvent: the results it can return; a *EventData is the empty sequence
\* (nil, for a rejected notification) or a sequence of one EventData.
filterEvent(event, allowedEvents, patterns) ==
  IF TriggeredLabels(event, allowedEvents) = {} THEN {<<>>}
  ELSE IF ~MatchesAnyPattern(patterns, Base(event.Name)) THEN {<<>>}
       ELSE {<<FilteredEventData(event, l)>> :
               l \in TriggeredLabels(event, allowedEvents)}

\* ------------------------------------------------------------------------
\* The scan of a newly created directory (recursive mode)
\* ------------------------------------------------------------------------
\* The EventData built for an entry of the new directory.
ScannedEventData(dirName, fileName) ==
  LET ext == Ext(fileName)
  IN [Path |-> Join(dirName, fileName), Name |-> fileName, Event |-> "CREATE",
      Ext |-> ext, Dir |-> dirName, BaseName |-> TrimSuffix(fileName, ext)]

\* The events the entry loop synthesizes, in the order of the entries: one
\* for every entry that is not a directory and matches a pattern.
RECURSIVE ScanEntriesWithDirs(_, _, _)
ScanEntriesWithDirs(dirName, entries, patterns) ==
  IF Len(entries) = 0 THEN <<>>
  ELSE LET entry == Head(entries)
           rest  == ScanEntriesWithDirs(dirName, Tail(entries), patterns)
       IN IF MatchesAnyPattern(patterns, entry.Name)
          THEN <<ScannedEventData(dirName, entry.Name)>> \o rest
          ELSE rest

RECURSIVE ScanEntries(_, _, _)
ScanEntries(dirName, entries, patterns) ==
  IF Len(entries) = 0 THEN <<>>
  ELSE LET entry == Head(entries)
           rest  == ScanEntries(dirName, Tail(entries), patterns)
       IN IF ~entry.IsDir /\ MatchesAnyPattern(patterns, entry.Name)
          THEN <<ScannedEventData(dirName, entry.Name)>> \o rest
          ELSE rest

\* ------------------------------------------------------------------------
\* The debounce timer (time.Timer): active until it expires or is stopped;
\* on expiry the runtime puts one tick into its channel C.
\* ------------------------------------------------------------------------
\* The nil *time.Timer.
NoTimer == [nil |-> TRUE, active |-> FALSE, when |-> 0]

\* time.NewTimer(d)
NewTimerAtOnce(nw, d) == [nil |-> FALSE, active |-> TRUE, when |-> nw]

NewTimer(nw, d) == [nil |-> FALSE, active |-> TRUE, when |-> nw + d]

\* The timer and its channel after the arm-or-reset step of the loop:
\* NewTimer when there is none, else Stop, a non-blocking drain of C when Stop
\* reports that the timer was not active, and Reset.
ArmOrResetNoDrain(timer, c, nw, d) ==
  IF timer.nil THEN [timer |-> NewTimer(nw, d), c |-> FALSE]
  ELSE [timer |-> NewTimer(nw, d), c |-> c]

ArmOrResetKeepsDeadline(timer, c, nw, d) ==
  IF timer.nil THEN [timer |-> NewTimer(nw, d), c |-> FALSE]
  ELSE [timer |-> timer, c |-> c]

ArmOrReset(timer, c, nw, d) ==
  IF timer.nil THEN [timer |-> NewTimer(nw, d), c |-> FALSE]
  ELSE LET stopped == timer.active
       IN [timer |-> NewTimer(nw, d),
           c |-> IF ~stopped THEN FALSE ELSE c]

\* ------------------------------------------------------------------------
\* Inputs of the model
\* ------------------------------------------------------------------------
PatGo   == <<"*", ".", "g", "o">>
PatStar == <<"*">>
PatBad  == <<"[">>
PatConfYaml == <<"c","o","n","f","i","g","/","*",".","y","a","m","l">>
NameConfApp == <<"c","o","n","f","i","g","/","a","p","p",".","y","a","m","l">>
NameBGo == <<"b", ".", "g", "o">>
NameCGo == <<"c", ".", "g", "o">>
NameDGo == <<"d", ".", "g", "o">>
NameSub == <<"s">>
NameTxt == <<"f", ".", "t">>
NameGGo == <<"g", ".", "g", "o">>
NameTwoDots == <<"a", ".", "b", ".", "g", "o">>

\* What os.Stat can report for the path of a notification.
StatResults == {"err", "file", "dir"}

\* os.ReadDir failed.
ReadDirError == [err |-> TRUE, entries |-> <<>>]

\* What os.ReadDir can report for a new directory: an error or its entries,
\* sorted by name.
ReadDirResults ==
  { ReadDirError,
    [err |-> FALSE, entries |-> <<[Name |-> NameCGo, IsDir |-> FALSE],
                                  [Name |-> NameDGo, IsDir |-> TRUE],
                                  [Name |-> NameTxt, IsDir |-> FALSE],
                                  [Name |-> NameGGo, IsDir |-> FALSE]>>] }

\* The notifications the source can deliver (fsnotify.Event: Name, Op).  A
\* notification of the model carries with it what the file system answers
\* when the goroutine handles it: Stat for os.Stat(event.Name) and, for a
\* directory, ReadDir for os.ReadDir(event.Name).
Notifications ==
  { [Name |-> NameBGo, Op |-> {Write}, Stat |-> "file", ReadDir |-> ReadDirError] }
  \cup
  { [Name |-> NameSub, Op |-> {Create}, Stat |-> st, ReadDir |-> rd] :
      st \in StatResults \ {"dir"}, rd \in {ReadDirError} }
  \cup
  { [Name |-> NameSub, Op |-> {Create}, Stat |-> "dir", ReadDir |-> rd] :
      rd \in ReadDirResults }

\* The requested event types with the platform of the build.
Setups ==
  { [EventTypes |-> <<<<"W", "r", "i", "t", "e">>, StrChmod>>, goos |-> "linux"],
    [EventTypes |-> <<StrWrite, StrCloseWrite>>, goos |-> "darwin"] }

\* The debounce delays (cfg.DebounceDelay) of the model.
Delays == {0, 2}

\* ------------------------------------------------------------------------
\* The setup walk: filepath.Abs, the exclusion test, filepath.Walk with the
\* callback of Run
\* ------------------------------------------------------------------------
\* The working directory of the process.
Cwd == <<"/", "w">>

IsAbs(path) == Len(path) > 0 /\ path[1] = Sep

\* filepath.Abs
Abs(path) == IF IsAbs(path) THEN Clean(path) ELSE Join(Cwd, path)

\* absExcludedDirs: the keys of the map built from cfg.ExcludeDirs.
AbsExcludedDirs(excludeDirs) ==
  {Abs(excludeDirs[i]) : i \in 1..Len(excludeDirs)}

\* The test of the callback with the prefix taken without the separators.
IsExcludedBareNames(absPath, absExcluded) ==
  \E exPath \in absExcluded : HasPrefix(absPath, exPath)

\* The test of the callback: some excluded path, with a separator after it,
\* is a prefix of the path with a separator after it.
IsExcluded(absPath, absExcluded) ==
  \E exPath \in absExcluded : HasPrefix(absPath \o <<Sep>>, exPath \o <<Sep>>)

\* The directory tree under the working directory: the directories, and the
\* names in each of them in the order readDirNames returns them (sorted).
DirA  == <<"a">>
DirV  == <<"v">>
DirVX == <<"v", "/", "x">>
DirVV == <<"v", "v">>
DirDot == <<".">>
TreeDirs == {DirDot, DirA, DirV, DirVX, DirVV}

IsDir(path) == Clean(path) \in TreeDirs

readDirNames(path) ==
  IF Clean(path) = DirDot THEN <<DirA, NameTxt, DirV, DirVV>>
  ELSE IF Clean(path) = DirV THEN <<<<"x">>>>
  ELSE <<>>

\* The file system has no fault.
NoFaults == [lstatErr |-> {}, readErr |-> {}, addErr |-> {}]

\* The callback handed to filepath.Walk.  w is the set of watches so far; ret
\* is what the callback returns: "nil", "SkipDir" or "err".
walkFnErrorSkipped(f, absExcluded, path, isDir, err, w) ==
  IF err THEN [w |-> w, ret |-> "nil"]
  ELSE IF isDir
       THEN IF IsExcluded(Abs(path), absExcluded)
            THEN [w |-> w, ret |-> "SkipDir"]
            ELSE [w |-> IF path \in f.addErr THEN w ELSE w \cup {path},
                  ret |-> "nil"]
       ELSE [w |-> w, ret |-> "nil"]

walkFn(f, absExcluded, path, isDir, err, w) ==
  IF err THEN [w |-> w, ret |-> "err"]
  ELSE IF isDir
       THEN IF IsExcluded(Abs(path), absExcluded)
            THEN [w |-> w, ret |-> "SkipDir"]
            ELSE [w |-> IF path \in f.addErr THEN w ELSE w \cup {path},
                  ret |-> "nil"]
       ELSE [w |-> w, ret |-> "nil"]

\* filepath.walk: the callback is called for the path, with the error of
\* readDirNames for a directory; then the entries are walked in order.
RECURSIVE walk(_, _, _, _)
RECURSIVE walkNames(_, _, _, _, _)
walk(f, absExcluded, path, w) ==
  IF ~IsDir(path) THEN walkFn(f, absExcluded, path, FALSE, FALSE, w)
  ELSE LET err  == path \in f.readErr
           res1 == walkFn(f, absExcluded, path, TRUE, err, w)
       IN IF err \/ res1.ret # "nil" THEN res1
          ELSE walkNames(f, absExcluded, path, readDirNames(path), res1.w)

\* The loop of filepath.walk over the names of a directory.
walkNames(f, absExcluded, path, names, w) ==
  IF Len(names) = 0 THEN [w |-> w, ret |-> "nil"]
  ELSE LET filename == Join(path, Head(names)) IN
       IF filename \in f.lstatErr
       THEN LET res == walkFn(f, absExcluded, filename, FALSE, TRUE, w)
            IN IF res.ret \notin {"nil", "SkipDir"} THEN res
               ELSE walkNames(f, absExcluded, path, Tail(names), res.w)
       ELSE LET res == walk(f, absExcluded, filename, w)
            IN IF res.ret # "nil" /\ (~IsDir(filename) \/ res.ret # "SkipDir")
               THEN res
               ELSE walkNames(f, absExcluded, path, Tail(names), res.w)

\* filepath.Walk
Walk(f, absExcluded, root, w) ==
  LET res == IF root \in f.lstatErr
             THEN walkFn(f, absExcluded, root, FALSE, TRUE, w)
             ELSE walk(f, absExcluded, root, w)
  IN [w |-> res.w, ret |-> IF res.ret = "SkipDir" THEN "nil" ELSE res.ret]

\* The loop over cfg.WatchDirs: a walk in recursive mode, else watcher.Add on
\* the directory itself.  An error of the walk or of watcher.Add is logged.
RECURSIVE AddWatches(_, _, _, _)
AddWatches(c, f, dirs, w) ==
  IF Len(dirs) = 0 THEN w
  ELSE LET dir == Head(dirs)
           w1  == IF c.Recursive
                  THEN Walk(f, AbsExcludedDirs(c.ExcludeDirs), dir, w).w
                  ELSE IF dir \in f.addErr THEN w ELSE w \cup {dir}
       IN AddWatches(c, f, Tail(dirs), w1)

\* The file system of a run: without a fault, or with the watch directory
\* itself out of reach (no watch is registered then).
SetupFaults == {NoFaults, [lstatErr |-> {DirDot}, readErr |-> {}, addErr |-> {}]}

\* ------------------------------------------------------------------------
\* executor.Execute: the command template and its rendering
\* ------------------------------------------------------------------------
\* A command template is a sequence of tokens: text, the delimiters "{{" and
\* "}}", and the field reference .v inside an action.
Text(v)  == [k |-> "text", v |-> v]
Field(v) == [k |-> "field", v |-> v]
Open     == [k |-> "open", v |-> ""]
Close    == [k |-> "close", v |-> ""]

\* The fields of watcher.EventData.
EventDataFields == {"Path", "Name", "Event", "Ext", "Dir", "BaseName"}

\* template.New("command").Parse: an action must be closed; a closing
\* delimiter outside an action is text.
RECURSIVE Parse(_)
Parse(toks) ==
  IF Len(toks) = 0 THEN [err |-> FALSE, nodes |-> <<>>]
  ELSE IF Head(toks).k = "open"
  THEN IF Len(toks) >= 3 /\ toks[2].k = "field" /\ toks[3].k = "close"
       THEN LET rest == Parse(SubSeq(toks, 4, Len(toks)))
            IN [err |-> rest.err, nodes |-> <<toks[2]>> \o rest.nodes]
       ELSE [err |-> TRUE, nodes |-> <<>>]
  ELSE LET rest == Parse(Tail(toks))
       IN [err |-> rest.err, nodes |-> <<Text(Head(toks).v)>> \o rest.nodes]

\* tmpl.Execute(&buf, templateData): a field node is evaluated on the data,
\* which is the EventData or, without one, struct{}{}, a value without
\* fields; a field the data does not have is an error.
RECURSIVE Render(_, _, _)
Render(nodes, hasData, data) ==
  IF Len(nodes) = 0 THEN [err |-> FALSE, out |-> <<>>]
  ELSE LET node == Head(nodes) IN
       IF node.k = "field" /\ (~hasData \/ node.v \notin EventDataFields)
       THEN [err |-> TRUE, out |-> <<>>]
       ELSE LET rest == Render(Tail(nodes), hasData, data)
                piece == IF node.k = "field"
                         THEN [k |-> "value", v |-> data[node.v]]
                         ELSE node
            IN [err |-> rest.err,
                out |-> IF rest.err THEN <<>> ELSE <<piece>> \o rest.out]

\* Execute(cfg, data): ran tells whether sh -c was run, on cmd; log is the
\* error logged before the return.
ExecuteRunsUnrendered(tmpl, hasData, data) ==
  LET parsed   == Parse(tmpl)
      rendered == Render(parsed.nodes, hasData, data)
  IN IF parsed.err THEN [ran |-> FALSE, log |-> "parse", cmd |-> <<>>]
     ELSE [ran |-> TRUE, log |-> "", cmd |-> rendered.out]

Execute(tmpl, hasData, data) ==
  LET parsed   == Parse(tmpl)
      rendered == Render(parsed.nodes, hasData, data)
  IN IF parsed.err THEN [ran |-> FALSE, log |-> "parse", cmd |-> <<>>]
     ELSE IF rendered.err THEN [ran |-> FALSE, log |-> "render", cmd |-> <<>>]
     ELSE [ran |-> TRUE, log |-> "", cmd |-> rendered.out]

\* The command templates of the model: make; echo {{.Path}};
\* cp {{.Dir}}/{{.BaseName}}{{.Ext}}; echo {{.Size}}; echo {{.Path
TmplMake     == <<Text("make")>>
TmplPath     == <<Text("echo "), Open, Field("Path"), Close>>
TmplParts    == <<Text("cp "), Open, Field("Dir"), Close, Text("/"),
                  Open, Field("BaseName"), Close, Open, Field("Ext"), Close>>
TmplUnknown  == <<Text("echo "), Open, Field("Size"), Close>>
TmplUnclosed == <<Text("echo "), Open, Field("Path")>>
Templates == {TmplMake, TmplPath, TmplParts, TmplUnknown, TmplUnclosed}

\* ------------------------------------------------------------------------
\* State
\* ------------------------------------------------------------------------
VARIABLES
  cfg,            \* watcher.Config
  goos,           \* runtime.GOOS
  fs,             \* the faults of the file system: paths on which lstat,
                  \* readDirNames and watcher.Add fail
  mainPc,         \* position of Run: start, setup, wait, returned, exited
  allowedEvents,  \* result of processEventTypes
  watches,        \* paths registered with watcher.Add
  loopPc,         \* position of the goroutine: idle, select, exec, stopped
  execFrom,       \* which call of execFunc is running: event, timer, scan
  scanTodo,       \* events of the directory scan not yet handed to execFunc
  debounceTimer,  \* NoTimer or the timer
  timerC,         \* debounceTimer.C holds a tick
  lastEventData,  \* 0 (nil) or a pointer into accepted
  evQueue,        \* notifications on their way through watcher.Events
  evClosed,       \* watcher.Events is closed
  errQueue,       \* errors on their way through watcher.Errors
  errClosed,      \* watcher.Errors is closed
  now,            \* the clock
  nInjected,      \* notifications delivered by the source so far
  nErrors,        \* errors delivered by the source so far
  exitCode,       \* -1, or the status the process exited with
  accepted,       \* the EventData objects created so far: data, creation time
                  \* t, the pointer that lastEventData held before (over) and
                  \* whether an unconsumed tick was in C then (tick)
  calls,          \* the calls of execFunc so far: pointer passed, time t,
                  \* number n of EventData objects created before the call
  running         \* calls of execFunc that have not returned

cfgVars   == <<cfg, goos, fs>>
mainVars  == <<mainPc, allowedEvents, exitCode>>
timerVars == <<debounceTimer, timerC>>
loopVars  == <<loopPc, execFrom, scanTodo, debounceTimer, timerC, lastEventData>>
chanVars  == <<evQueue, evClosed, errQueue, errClosed, nInjected, nErrors>>
histVars  == <<accepted, calls, running>>
vars == <<cfg, goos, fs, mainPc, allowedEvents, watches, loopPc, execFrom, scanTodo,
          debounceTimer, timerC, lastEventData, evQueue, evClosed, errQueue,
          errClosed, now, nInjected, nErrors, exitCode, accepted, calls,
          running>>

\* The state in which Run is entered with the given configuration.
InitWith(c, os, f) ==
  /\ cfg = c
  /\ goos = os
  /\ fs = f
  /\ mainPc = "start"
  /\ allowedEvents = {}
  /\ watches = {}
  /\ loopPc = "idle"
  /\ execFrom = Nil
  /\ scanTodo = <<>>
  /\ debounceTimer = NoTimer
  /\ timerC = FALSE
  /\ lastEventData = 0
  /\ evQueue = <<>>
  /\ evClosed = FALSE
  /\ errQueue = 0
  /\ errClosed = FALSE
  /\ now = 0
  /\ nInjected = 0
  /\ nErrors = 0
  /\ exitCode = -1
  /\ accepted = <<>>
  /\ calls = <<>>
  /\ running = 0

\* Run is entered in recursive mode (a Create notification whose path is not
\* a directory is handled as in non-recursive mode).
Init ==
  \E su \in Setups, d \in Delays, f \in SetupFaults :
    InitWith([Patterns |-> <<PatGo>>, EventTypes |-> su.EventTypes,
              Recursive |-> TRUE, DebounceDelay |-> d,
              WatchDirs |-> <<DirDot>>, ExcludeDirs |-> <<>>,
              CommandTmpl |-> TmplMake], su.goos, f)

\* ------------------------------------------------------------------------
\* Run, main goroutine
\* ------------------------------------------------------------------------
\* Run up to the start of the goroutine: processEventTypes either exits the
\* process or yields the allowed kinds, and the goroutine is started.
RunStart ==
  /\ mainPc = "start"
  /\ LET res == processEventTypes(cfg.EventTypes, goos) IN
     IF res.exit
     THEN /\ mainPc' = "exited"
          /\ exitCode' = 1
          /\ UNCHANGED <<allowedEvents, loopPc>>
     ELSE /\ mainPc' = "setup"
          /\ allowedEvents' = res.lookup
          /\ loopPc' = "select"
          /\ UNCHANGED exitCode
  /\ UNCHANGED <<cfgVars, watches, execFrom, scanTodo, debounceTimer, timerC,
                 lastEventData, chanVars, now, histVars>>

\* The registration of the watches on cfg.WatchDirs, up to <-done.
SetupWatches ==
  /\ mainPc = "setup"
  /\ mainPc' = "wait"
  /\ UNCHANGED exitCode
  /\ watches' = AddWatches(cfg, fs, cfg.WatchDirs, watches)
  /\ UNCHANGED <<cfgVars, allowedEvents, loopVars, chanVars, now, histVars>>

\* <-done, then return nil: Run returns once the goroutine has returned.
RunReturn ==
  /\ mainPc = "wait"
  /\ loopPc = "stopped"
  /\ mainPc' = "returned"
  /\ UNCHANGED exitCode
  /\ UNCHANGED <<cfgVars, allowedEvents, watches, loopVars, chanVars, now,
                 histVars>>

\* ------------------------------------------------------------------------
\* The goroutine: one action per case of the select
\* ------------------------------------------------------------------------
\* The record of a call execFunc(cfg, data), with what Execute does in it;
\* ptr is 0 for a nil data.
CallRecord(ptr, acc) ==
  [ptr |-> ptr, t |-> now, n |-> Len(acc),
   exe |-> IF ptr = 0 THEN Execute(cfg.CommandTmpl, FALSE, Nil)
           ELSE Execute(cfg.CommandTmpl, TRUE, acc[ptr].data)]

\* execFunc(cfg, data): the call is made and the goroutine waits in it.
CallExecAsync(ptr, from, acc) ==
  /\ calls' = Append(calls, CallRecord(ptr, acc))
  /\ running' = running + 1
  /\ loopPc' = "select"
  /\ execFrom' = Nil

CallExec(ptr, from, acc) ==
  /\ calls' = Append(calls, CallRecord(ptr, acc))
  /\ running' = running + 1
  /\ loopPc' = "exec"
  /\ execFrom' = from

\* The debounce-or-execute step for the EventData returned by filterEvent.
DispatchFilteredFirstWins(ed) ==
  LET acc == Append(accepted, [t |-> now, data |-> ed, over |-> lastEventData,
                               tick |-> timerC])
      ptr == Len(acc)
  IN /\ accepted' = acc
     /\ lastEventData' = IF lastEventData # 0 THEN lastEventData ELSE ptr
     /\ scanTodo' = scanTodo
     /\ IF cfg.DebounceDelay > 0
        THEN LET tm == ArmOrReset(debounceTimer, timerC, now, cfg.DebounceDelay)
             IN /\ debounceTimer' = tm.timer
                /\ timerC' = tm.c
                /\ UNCHANGED <<loopPc, execFrom, calls, running>>
        ELSE /\ CallExec(ptr, "event", acc)
             /\ UNCHANGED <<debounceTimer, timerC>>

DispatchFilteredAlwaysDebounce(ed) ==
  LET acc == Append(accepted, [t |-> now, data |-> ed, over |-> lastEventData,
                               tick |-> timerC])
      ptr == Len(acc)
  IN /\ accepted' = acc
     /\ lastEventData' = ptr
     /\ scanTodo' = scanTodo
     /\ LET tm == ArmOrReset(debounceTimer, timerC, now, cfg.DebounceDelay)
        IN /\ debounceTimer' = tm.timer
           /\ timerC' = tm.c
           /\ UNCHANGED <<loopPc, execFrom, calls, running>>

DispatchFilteredPassesNil(ed) ==
  LET acc == Append(accepted, [t |-> now, data |-> ed, over |-> lastEventData,
                               tick |-> timerC])
      ptr == Len(acc)
  IN /\ accepted' = acc
     /\ lastEventData' = ptr
     /\ scanTodo' = scanTodo
     /\ IF cfg.DebounceDelay > 0
        THEN LET tm == ArmOrReset(debounceTimer, timerC, now, cfg.DebounceDelay)
             IN /\ debounceTimer' = tm.timer
                /\ timerC' = tm.c
                /\ UNCHANGED <<loopPc, execFrom, calls, running>>
        ELSE /\ CallExec(0, "event", acc)
             /\ UNCHANGED <<debounceTimer, timerC>>

DispatchFilteredCallsAndArms(ed) ==
  LET acc == Append(accepted, [t |-> now, data |-> ed, over |-> lastEventData,
                               tick |-> timerC])
      ptr == Len(acc)
  IN /\ accepted' = acc
     /\ lastEventData' = ptr
     /\ scanTodo' = scanTodo
     /\ CallExec(ptr, "event", acc)
     /\ IF cfg.DebounceDelay > 0
        THEN LET tm == ArmOrReset(debounceTimer, timerC, now, cfg.DebounceDelay)
             IN /\ debounceTimer' = tm.timer
                /\ timerC' = tm.c
        ELSE UNCHANGED <<debounceTimer, timerC>>

DispatchFiltered(ed) ==
  LET acc == Append(accepted, [t |-> now, data |-> ed, over |-> lastEventData,
                               tick |-> timerC])
      ptr == Len(acc)
  IN /\ accepted' = acc
     /\ lastEventData' = ptr
     /\ scanTodo' = scanTodo
     /\ IF cfg.DebounceDelay > 0
        THEN LET tm == ArmOrReset(debounceTimer, timerC, now, cfg.DebounceDelay)
             IN /\ debounceTimer' = tm.timer
                /\ timerC' = tm.c
                /\ UNCHANGED <<loopPc, execFrom, calls, running>>
        ELSE /\ CallExec(ptr, "event", acc)
             /\ UNCHANGED <<debounceTimer, timerC>>

\* filterEvent and what follows it; a rejected notification changes nothing.
HandleFilteredRejectResets(event) ==
  /\ \E ed \in filterEvent(event, allowedEvents, cfg.Patterns) :
       IF ed = <<>>
       THEN IF debounceTimer.nil
            THEN UNCHANGED <<loopVars, histVars>>
            ELSE LET tm == ArmOrReset(debounceTimer, timerC, now,
                                      cfg.DebounceDelay)
                 IN /\ debounceTimer' = tm.timer
                    /\ timerC' = tm.c
                    /\ UNCHANGED <<loopPc, execFrom, scanTodo, lastEventData,
                                   histVars>>
       ELSE DispatchFiltered(ed[1])
  /\ UNCHANGED watches

HandleFiltered(event) ==
  /\ \E ed \in filterEvent(event, allowedEvents, cfg.Patterns) :
       IF ed = <<>>
       THEN UNCHANGED <<loopVars, histVars>>
       ELSE DispatchFiltered(ed[1])
  /\ UNCHANGED watches

\* The debounce branch of the scan for the synthesized events syn (not
\* empty): each one replaces lastEventData and arms or resets the timer.
RECURSIVE DebounceAll(_, _, _)
DebounceAll(k, timer, c) ==
  IF k = 0 THEN [timer |-> timer, c |-> c]
  ELSE LET tm == ArmOrReset(timer, c, now, cfg.DebounceDelay)
       IN DebounceAll(k - 1, tm.timer, tm.c)

\* The handling of a Create notification for a directory in recursive mode:
\* watcher.Add, os.ReadDir, the scan of the entries; filterEvent is skipped.
HandleDirCreateNoDebounce(event, addOk, rd) ==
  /\ watches' = IF addOk THEN watches \cup {event.Name} ELSE watches
  /\ LET syn == IF rd.err THEN <<>>
                ELSE ScanEntries(event.Name, rd.entries, cfg.Patterns)
     IN IF Len(syn) = 0
        THEN UNCHANGED <<loopVars, histVars>>
        ELSE LET acc == Append(accepted, [t |-> now, data |-> syn[1], over |-> 0,
                                          tick |-> timerC])
             IN /\ accepted' = acc
                /\ scanTodo' = Tail(syn)
                /\ CallExec(Len(acc), "scan", acc)
                /\ UNCHANGED <<debounceTimer, timerC, lastEventData>>

HandleDirCreateAddFatal(event, addOk, rd) ==
  /\ watches' = IF addOk THEN watches \cup {event.Name} ELSE watches
  /\ LET syn == IF rd.err \/ ~addOk THEN <<>>
                ELSE ScanEntries(event.Name, rd.entries, cfg.Patterns)
     IN IF Len(syn) = 0
        THEN UNCHANGED <<loopVars, histVars>>
        ELSE IF cfg.DebounceDelay > 0
        THEN LET tm == DebounceAll(Len(syn), debounceTimer, timerC)
                 acc == accepted \o [i \in 1..Len(syn) |->
                          [t |-> now, data |-> syn[i],
                           over |-> IF i = 1 THEN lastEventData
                                    ELSE Len(accepted) + i - 1,
                           tick |-> DebounceAll(i - 1, debounceTimer, timerC).c]]
             IN /\ accepted' = acc
                /\ lastEventData' = Len(acc)
                /\ debounceTimer' = tm.timer
                /\ timerC' = tm.c
                /\ UNCHANGED <<loopPc, execFrom, scanTodo, calls, running>>
        ELSE LET acc == Append(accepted, [t |-> now, data |-> syn[1], over |-> 0,
                                          tick |-> timerC])
             IN /\ accepted' = acc
                /\ scanTodo' = Tail(syn)
                /\ CallExec(Len(acc), "scan", acc)
                /\ UNCHANGED <<debounceTimer, timerC, lastEventData>>

HandleDirCreate(event, addOk, rd) ==
  /\ watches' = IF addOk THEN watches \cup {event.Name} ELSE watches
  /\ LET syn == IF rd.err THEN <<>>
                ELSE ScanEntries(event.Name, rd.entries, cfg.Patterns)
     IN IF Len(syn) = 0
        THEN UNCHANGED <<loopVars, histVars>>
        ELSE IF cfg.DebounceDelay > 0
        THEN LET tm == DebounceAll(Len(syn), debounceTimer, timerC)
                 acc == accepted \o [i \in 1..Len(syn) |->
                          [t |-> now, data |-> syn[i],
                           over |-> IF i = 1 THEN lastEventData
                                    ELSE Len(accepted) + i - 1,
                           tick |-> DebounceAll(i - 1, debounceTimer, timerC).c]]
             IN /\ accepted' = acc
                /\ lastEventData' = Len(acc)
                /\ debounceTimer' = tm.timer
                /\ timerC' = tm.c
                /\ UNCHANGED <<loopPc, execFrom, scanTodo, calls, running>>
        ELSE LET acc == Append(accepted, [t |-> now, data |-> syn[1], over |-> 0,
                                          tick |-> timerC])
             IN /\ accepted' = acc
                /\ scanTodo' = Tail(syn)
                /\ CallExec(Len(acc), "scan", acc)
                /\ UNCHANGED <<debounceTimer, timerC, lastEventData>>

\* case event, ok := <-watcher.Events, with ok
RecvEventNewestFirst ==
  /\ loopPc = "select"
  /\ Len(evQueue) > 0
  /\ evQueue' = SubSeq(evQueue, 1, Len(evQueue) - 1)
  /\ LET event == evQueue[Len(evQueue)] IN
     IF cfg.Recursive /\ Create \in event.Op /\ event.Stat = "dir"
     THEN \E addOk \in BOOLEAN : HandleDirCreate(event, addOk, event.ReadDir)
     ELSE HandleFiltered(event)
  /\ UNCHANGED <<cfgVars, mainVars, evClosed, errQueue, errClosed, nInjected,
                 nErrors, now>>

RecvEventNoDirBranch ==
  /\ loopPc = "select"
  /\ Len(evQueue) > 0
  /\ evQueue' = Tail(evQueue)
  /\ HandleFiltered(Head(evQueue))
  /\ UNCHANGED <<cfgVars, mainVars, evClosed, errQueue, errClosed, nInjected,
                 nErrors, now>>

RecvEvent ==
  /\ loopPc = "select"
  /\ Len(evQueue) > 0
  /\ evQueue' = Tail(evQueue)
  /\ LET event == Head(evQueue) IN
     IF cfg.Recursive /\ Create \in event.Op /\ event.Stat = "dir"
     THEN \E addOk \in BOOLEAN : HandleDirCreate(event, addOk, event.ReadDir)
     ELSE HandleFiltered(event)
  /\ UNCHANGED <<cfgVars, mainVars, evClosed, errQueue, errClosed, nInjected,
                 nErrors, now>>

\* case event, ok := <-watcher.Events, with !ok: the goroutine returns.
RecvEventsClosedIgnored ==
  /\ loopPc = "select"
  /\ Len(evQueue) = 0
  /\ evClosed
  /\ UNCHANGED vars

RecvEventsClosedFlushes ==
  /\ loopPc = "select"
  /\ Len(evQueue) = 0
  /\ evClosed
  /\ loopPc' = "stopped"
  /\ calls' = IF lastEventData # 0
              THEN Append(calls, CallRecord(lastEventData, accepted))
              ELSE calls
  /\ UNCHANGED <<cfgVars, mainVars, watches, execFrom, scanTodo, debounceTimer,
                 timerC, lastEventData, chanVars, now, accepted, running>>

RecvEventsClosed ==
  /\ loopPc = "select"
  /\ Len(evQueue) = 0
  /\ evClosed
  /\ loopPc' = "stopped"
  /\ UNCHANGED <<cfgVars, mainVars, watches, execFrom, scanTodo, debounceTimer,
                 timerC, lastEventData, chanVars, now, histVars>>

\* case <-timerChan
TimerFiredClearsFirst ==
  /\ loopPc = "select"
  /\ ~debounceTimer.nil
  /\ timerC
  /\ timerC' = FALSE
  /\ IF lastEventData # 0
     THEN /\ CallExec(0, "timer", accepted)
          /\ UNCHANGED <<debounceTimer, lastEventData>>
     ELSE /\ debounceTimer' = NoTimer
          /\ UNCHANGED <<loopPc, execFrom, lastEventData, calls, running>>
  /\ UNCHANGED <<cfgVars, mainVars, watches, scanTodo, chanVars, now, accepted>>

TimerFiredPassesFirst ==
  /\ loopPc = "select"
  /\ ~debounceTimer.nil
  /\ timerC
  /\ timerC' = FALSE
  /\ IF lastEventData # 0
     THEN /\ CallExec(1, "timer", accepted)
          /\ UNCHANGED <<debounceTimer, lastEventData>>
     ELSE /\ debounceTimer' = NoTimer
          /\ UNCHANGED <<loopPc, execFrom, lastEventData, calls, running>>
  /\ UNCHANGED <<cfgVars, mainVars, watches, scanTodo, chanVars, now, accepted>>

TimerFired ==
  /\ loopPc = "select"
  /\ ~debounceTimer.nil
  /\ timerC
  /\ timerC' = FALSE
  /\ IF lastEventData # 0
     THEN /\ CallExec(lastEventData, "timer", accepted)
          /\ UNCHANGED <<debounceTimer, lastEventData>>
     ELSE /\ debounceTimer' = NoTimer
          /\ UNCHANGED <<loopPc, execFrom, lastEventData, calls, running>>
  /\ UNCHANGED <<cfgVars, mainVars, watches, scanTodo, chanVars, now, accepted>>

\* case err, ok := <-watcher.Errors, with ok: the error is logged.
RecvErrorStops ==
  /\ loopPc = "select"
  /\ errQueue > 0
  /\ errQueue' = errQueue - 1
  /\ loopPc' = "stopped"
  /\ UNCHANGED <<cfgVars, mainVars, watches, execFrom, scanTodo, debounceTimer,
                 timerC, lastEventData, evQueue, evClosed, errClosed, nInjected,
                 nErrors, now, histVars>>

RecvError ==
  /\ loopPc = "select"
  /\ errQueue > 0
  /\ errQueue' = errQueue - 1
  /\ UNCHANGED <<cfgVars, mainVars, watches, loopVars, evQueue, evClosed,
                 errClosed, nInjected, nErrors, now, histVars>>

\* case err, ok := <-watcher.Errors, with !ok: the goroutine returns.
RecvErrorsClosed ==
  /\ loopPc = "select"
  /\ errQueue = 0
  /\ errClosed
  /\ loopPc' = "stopped"
  /\ UNCHANGED <<cfgVars, mainVars, watches, execFrom, scanTodo, debounceTimer,
                 timerC, lastEventData, chanVars, now, histVars>>

\* execFunc returns and the goroutine goes on after the call: after the call
\* of the timer case it clears lastEventData and debounceTimer; after a call
\* of the scan it goes on with the next matching entry.
ExecReturnKeepsTimer ==
  /\ loopPc = "exec"
  /\ IF execFrom = "timer"
     THEN /\ lastEventData' = 0
          /\ debounceTimer' = debounceTimer
          /\ loopPc' = "select"
          /\ execFrom' = Nil
          /\ running' = running - 1
          /\ UNCHANGED <<scanTodo, accepted, calls>>
     ELSE IF execFrom = "scan" /\ Len(scanTodo) > 0
     THEN LET acc == Append(accepted, [t |-> now, data |-> Head(scanTodo),
                                       over |-> 0, tick |-> timerC])
          IN /\ accepted' = acc
             /\ scanTodo' = Tail(scanTodo)
             /\ calls' = Append(calls, CallRecord(Len(acc), acc))
             /\ running' = running
             /\ UNCHANGED <<loopPc, execFrom, debounceTimer, lastEventData>>
     ELSE /\ loopPc' = "select"
          /\ execFrom' = Nil
          /\ running' = running - 1
          /\ UNCHANGED <<scanTodo, accepted, calls, debounceTimer, lastEventData>>
  /\ UNCHANGED <<cfgVars, mainVars, watches, timerC, chanVars, now>>

ExecReturn ==
  /\ loopPc = "exec"
  /\ IF execFrom = "timer"
     THEN /\ lastEventData' = 0
          /\ debounceTimer' = NoTimer
          /\ loopPc' = "select"
          /\ execFrom' = Nil
          /\ running' = running - 1
          /\ UNCHANGED <<scanTodo, accepted, calls>>
     ELSE IF execFrom = "scan" /\ Len(scanTodo) > 0
     THEN LET acc == Append(accepted, [t |-> now, data |-> Head(scanTodo),
                                       over |-> 0, tick |-> timerC])
          IN /\ accepted' = acc
             /\ scanTodo' = Tail(scanTodo)
             /\ calls' = Append(calls, CallRecord(Len(acc), acc))
             /\ running' = running
             /\ UNCHANGED <<loopPc, execFrom, debounceTimer, lastEventData>>
     ELSE /\ loopPc' = "select"
          /\ execFrom' = Nil
          /\ running' = running - 1
          /\ UNCHANGED <<scanTodo, accepted, calls, debounceTimer, lastEventData>>
  /\ UNCHANGED <<cfgVars, mainVars, watches, timerC, chanVars, now>>

\* ------------------------------------------------------------------------
\* The environment: the clock, the timer runtime, the notification source
\* ------------------------------------------------------------------------
\* The clock advances.  The program reads it through the debounce timer only,
\* so it is followed while a timer counts down.  At the deadline the clock of
\* the model waits for the timer runtime and the goroutine: an expiry or a
\* receive at the deadline stands for the same step at any later time.
Tick ==
  /\ ~debounceTimer.nil
  /\ debounceTimer.active
  /\ now < debounceTimer.when
  /\ now < MaxTime
  /\ now' = now + 1
  /\ UNCHANGED <<cfgVars, mainVars, watches, loopVars, chanVars, histVars>>

\* The timer expires: it is no longer active and a tick is put into C.
TimerExpireNoTick ==
  /\ ~debounceTimer.nil
  /\ debounceTimer.active
  /\ now >= debounceTimer.when
  /\ debounceTimer' = [debounceTimer EXCEPT !.active = FALSE]
  /\ timerC' = FALSE
  /\ UNCHANGED <<cfgVars, mainVars, watches, loopPc, execFrom, scanTodo,
                 lastEventData, chanVars, now, histVars>>

TimerExpire ==
  /\ ~debounceTimer.nil
  /\ debounceTimer.active
  /\ now >= debounceTimer.when
  /\ debounceTimer' = [debounceTimer EXCEPT !.active = FALSE]
  /\ timerC' = TRUE
  /\ UNCHANGED <<cfgVars, mainVars, watches, loopPc, execFrom, scanTodo,
                 lastEventData, chanVars, now, histVars>>

\* The source delivers a notification: it has a watch to report on and the
\* goroutine is there to receive.
Notify ==
  /\ watches # {}
  /\ loopPc # "stopped"
  /\ ~evClosed
  /\ nInjected < MaxEvents
  /\ Len(evQueue) < MaxQueue
  /\ \E n \in Notifications : evQueue' = Append(evQueue, n)
  /\ nInjected' = nInjected + 1
  /\ UNCHANGED <<cfgVars, mainVars, watches, loopVars, evClosed, errQueue,
                 errClosed, nErrors, now, histVars>>

\* The source delivers an error.
NotifyError ==
  /\ watches # {}
  /\ loopPc # "stopped"
  /\ ~errClosed
  /\ nErrors < MaxErrors
  /\ errQueue' = errQueue + 1
  /\ nErrors' = nErrors + 1
  /\ UNCHANGED <<cfgVars, mainVars, watches, loopVars, evQueue, evClosed,
                 errClosed, nInjected, now, histVars>>

\* The source closes watcher.Events.
CloseEvents ==
  /\ mainPc \in {"setup", "wait"}
  /\ loopPc # "stopped"
  /\ ~evClosed
  /\ evClosed' = TRUE
  /\ UNCHANGED <<cfgVars, mainVars, watches, loopVars, evQueue, errQueue,
                 errClosed, nInjected, nErrors, now, histVars>>

\* The source closes watcher.Errors.
CloseErrors ==
  /\ mainPc \in {"setup", "wait"}
  /\ loopPc # "stopped"
  /\ ~errClosed
  /\ errClosed' = TRUE
  /\ UNCHANGED <<cfgVars, mainVars, watches, loopVars, evQueue, evClosed,
                 errQueue, nInjected, nErrors, now, histVars>>

Next ==
  \/ RunStart
  \/ SetupWatches
  \/ RunReturn
  \/ RecvEvent
  \/ RecvEventsClosed
  \/ TimerFired
  \/ RecvError
  \/ RecvErrorsClosed
  \/ ExecReturn
  \/ Tick
  \/ TimerExpire
  \/ Notify
  \/ NotifyError
  \/ CloseEvents
  \/ CloseErrors

Spec == Init /\ [][Next]_vars

TypeOK ==
  /\ mainPc \in {"start", "setup", "wait", "returned", "exited"}
  /\ loopPc \in {"idle", "select", "exec", "stopped"}
  /\ lastEventData \in 0..Len(accepted)
  /\ now \in 0..MaxTime

\* A notification can be received: the enabling condition of RecvEvent, which
\* has a successor for every notification at the head of watcher.Events.
EventReady == loopPc = "select" /\ Len(evQueue) > 0

\* The goroutine, the timer runtime and Run make progress: the select takes a
\* case that stays ready, a call of execFunc returns, an expired timer sends
\* its tick.  The conditions on SetupWatches and on RecvEvent are
\* WF_vars(SetupWatches) and WF_vars(RecvEvent) with the enabling conditions
\* written out.
FairSpec ==
  /\ Spec
  /\ WF_vars(RunStart) /\ WF_vars(RunReturn)
  /\ ([]<>(mainPc # "setup") \/ []<><<SetupWatches>>_vars)
  /\ ([]<>(~EventReady) \/ []<><<RecvEvent>>_vars)
  /\ WF_vars(RecvEventsClosed) /\ WF_vars(TimerFired)
  /\ WF_vars(RecvError) /\ WF_vars(RecvErrorsClosed) /\ WF_vars(ExecReturn)
  /\ WF_vars(TimerExpire) /\ WF_vars(Tick)

\* ------------------------------------------------------------------------
\* processEventTypes on its own: Run up to the start of the goroutine, for
\* every list of at most MaxTypes names and every platform
\* ------------------------------------------------------------------------
TypeNames ==
  { StrAll, <<"A", "L", "L">>, <<"A", "l", "l">>,
    StrCreate, StrWrite, <<"W", "r", "i", "t", "e">>, StrRemove, StrRename,
    StrChmod, StrOpen, <<"O", "P", "E", "N">>, StrRead, StrCloseWrite,
    StrCloseRead, <<"b", "o", "g", "u", "s">>, <<>> }

TypeLists == UNION {[1..n -> TypeNames] : n \in 0..MaxTypes}

InitTypes ==
  \E types \in TypeLists, os \in GoosValues :
    InitWith([Patterns |-> <<PatGo>>, EventTypes |-> types, Recursive |-> TRUE,
              DebounceDelay |-> 0, WatchDirs |-> <<DirDot>>,
              ExcludeDirs |-> <<>>,
              CommandTmpl |-> TmplMake], os, NoFaults)

NextTypes == RunStart

SpecTypes == InitTypes /\ [][NextTypes]_vars

\* ------------------------------------------------------------------------
\* Properties
\* ------------------------------------------------------------------------
Debounce == cfg.DebounceDelay > 0

\* The Idle state of the coordinator: selecting, no timer, nothing pending.
Idle == loopPc = "select" /\ debounceTimer.nil /\ lastEventData = 0

\* The calls of execFunc that were passed the i-th EventData.
CallsOf(i) == {j \in 1..Len(calls) : calls[j].ptr = i}

\* The i-th accepted event is the last of its burst: the next one, if any, was
\* accepted at least a delay after it.  The time of an accepted event is the
\* time at which the loop accepted it.
LastOfBurst(i) ==
  i = Len(accepted) \/ accepted[i + 1].t - accepted[i].t >= cfg.DebounceDelay

\* A later event took the place of the i-th one in lastEventData.
Replaced(i) == \E k \in (i + 1)..Len(accepted) : accepted[k].over = i

\* The pointers passed to execFunc, in the order of the calls.
CallPtrs == [j \in 1..Len(calls) |-> calls[j].ptr]

\* C1 (as stated): with a delay > 0, once the loop is Idle again every burst
\* of accepted events has had exactly one call of execFunc, with its last
\* event, and no other event of the burst was passed.
C1_ExactlyOncePerBurst ==
  (Debounce /\ Idle) =>
    \A i \in 1..Len(accepted) :
      Cardinality(CallsOf(i)) = IF LastOfBurst(i) THEN 1 ELSE 0

\* C1 (amended): with a delay > 0 a burst never gets more than one call and
\* only its last event is ever passed; once the loop is Idle again the last
\* event of every burst has been passed exactly once, unless a later accepted
\* event replaced it while it was still pending, and then it is never passed.
C1_BurstCoalesced ==
  Debounce =>
    /\ \A i \in 1..Len(accepted) :
         /\ Cardinality(CallsOf(i)) <= 1
         /\ CallsOf(i) # {} => LastOfBurst(i) /\ ~Replaced(i)
    /\ Idle => \A i \in 1..Len(accepted) :
                 (LastOfBurst(i) /\ ~Replaced(i)) => Cardinality(CallsOf(i)) = 1

\* A burst of two events accepted at different times, fired once with the
\* second event.
C1_Witness ==
  /\ Debounce /\ Idle
  /\ \E i \in 2..Len(accepted) :
       /\ accepted[i].t > accepted[i - 1].t
       /\ ~LastOfBurst(i - 1)
       /\ CallsOf(i) # {} /\ CallsOf(i - 1) = {}

\* C2: with a delay > 0 execFunc is never called earlier than a full delay
\* after the most recent accepted event: every call is made at or after that
\* time, an active timer is set to expire exactly a delay after that event,
\* and a tick waits in C only when that time has come.
C2_NeverEarly ==
  Debounce =>
    /\ \A j \in 1..Len(calls) :
         calls[j].t >= accepted[calls[j].n].t + cfg.DebounceDelay
    /\ (~debounceTimer.nil /\ debounceTimer.active) =>
         /\ Len(accepted) > 0
         /\ debounceTimer.when = accepted[Len(accepted)].t + cfg.DebounceDelay
    /\ timerC =>
         /\ Len(accepted) > 0
         /\ now >= accepted[Len(accepted)].t + cfg.DebounceDelay

\* An event accepted while another was pending was fired exactly a delay
\* after it was accepted.
C2_Witness ==
  /\ Debounce
  /\ \E j \in 1..Len(calls) :
       /\ accepted[calls[j].ptr].over # 0
       /\ accepted[calls[j].ptr].t > accepted[accepted[calls[j].ptr].over].t
       /\ calls[j].t = accepted[calls[j].ptr].t + cfg.DebounceDelay

\* Two events were accepted, the second at least a delay after the first, and
\* the loop is Idle again.
TwoSeparated ==
  /\ Debounce /\ Idle
  /\ Len(accepted) = 2
  /\ accepted[2].t - accepted[1].t >= cfg.DebounceDelay

\* C3 (as stated): two accepted events separated by at least the delay give
\* exactly two calls of execFunc, the first with the first event, the second
\* with the second.
C3_TwoCallsAlways == TwoSeparated => CallPtrs = <<1, 2>>

\* C3 (amended): two accepted events separated by at least the delay give
\* exactly two calls, each with its event, when the loop took the tick of the
\* first before it accepted the second; when the second is accepted while the
\* first is still pending, the first is dropped and there is exactly one call,
\* with the second event.
C3_TwoCallsUnlessReplaced ==
  TwoSeparated =>
    CallPtrs = IF accepted[2].over = 0 THEN <<1, 2>> ELSE <<2>>

C3_Witness ==
  /\ TwoSeparated
  /\ CallPtrs = <<1, 2>>
  /\ calls[1].n = 1

\* C4: with a delay of zero every accepted event is passed to execFunc in the
\* step that accepted it, before another input is taken: the calls are the
\* accepted events in order, each made when its event was the newest; no
\* timer is ever created.
C4_Immediate ==
  ~Debounce =>
    /\ debounceTimer.nil
    /\ ~timerC
    /\ Len(calls) = Len(accepted)
    /\ \A j \in 1..Len(calls) : calls[j].ptr = j /\ calls[j].n = j

C4_Witness ==
  /\ ~Debounce
  /\ Len(calls) >= 2
  /\ \E j \in 1..Len(calls) : accepted[j].data.Event # "CREATE"
  /\ loopPc = "select"

\* C5: when an event is accepted while a tick of the elapsed timer waits
\* unconsumed in C, the tick is drained in that step and the timer expires a
\* full delay later, without a call; no tick ever waits in the channel of an
\* active timer, no event is passed twice, and an event accepted over such a
\* tick is passed no earlier than a delay after it.
C5_StaleTickDrained ==
  [][ Debounce =>
        /\ (timerC /\ Len(accepted') > Len(accepted)) =>
             /\ ~timerC'
             /\ debounceTimer'.active
             /\ debounceTimer'.when = now + cfg.DebounceDelay
             /\ calls' = calls
        /\ timerC' => ~debounceTimer'.active
        /\ \A j \in 1..Len(calls') :
             /\ Cardinality({k \in 1..Len(calls') : calls'[k].ptr = calls'[j].ptr}) = 1
             /\ accepted'[calls'[j].ptr].tick =>
                  calls'[j].t >= accepted'[calls'[j].ptr].t + cfg.DebounceDelay
    ]_vars

\* An event accepted over an unconsumed tick was fired later.
C5_Witness ==
  /\ Debounce
  /\ \E j \in 1..Len(calls) : accepted[calls[j].ptr].tick

\* C6: at most one call of execFunc is in progress, and while one is the
\* loop takes no notification, no error and no tick and does not return.
C6_OneCallback ==
  [][ /\ running' <= 1
      /\ running > 0 =>
           /\ Len(evQueue') >= Len(evQueue)
           /\ errQueue' >= errQueue
           /\ (timerC => timerC')
           /\ loopPc' # "stopped"
    ]_vars

\* A notification and an error wait while a call is in progress.
C6_Witness == running = 1 /\ Len(evQueue) > 0 /\ errQueue > 0

\* C7 (as stated): the loop terminates when it receives an error from
\* watcher.Errors.
C7_ErrorTerminates == [][errQueue' < errQueue => loopPc' = "stopped"]_vars

\* C7 (amended): an error received from watcher.Errors is logged only: the
\* loop goes on selecting with its timer, pending event, calls and watches
\* unchanged.
C7_ErrorLogged ==
  [][ errQueue' < errQueue =>
        /\ loopPc' = "select"
        /\ UNCHANGED <<debounceTimer, timerC, lastEventData, accepted, calls,
                       watches, evQueue, mainPc>>
    ]_vars

\* An error was received and the loop is selecting.
C7_Witness == nErrors > errQueue /\ loopPc = "select" /\ mainPc = "wait"

\* C8: once watcher.Events or watcher.Errors is closed Run eventually
\* returns, and after the goroutine has returned execFunc is not called.
C8_ClosedTerminates ==
  /\ (evClosed \/ errClosed) ~> (mainPc = "returned")
  /\ [][ loopPc = "stopped" =>
           loopPc' = "stopped" /\ calls' = calls /\ running' = 0 ]_vars

\* Run has returned after a closure, with a call made before.
C8_Witness ==
  mainPc = "returned" /\ (evClosed \/ errClosed) /\ Len(calls) > 0

\* The name selects a platform-restricted kind.
IsRestrictedName(t) ==
  ToLower(t) \in {StrOpen, StrRead, StrCloseWrite, StrCloseRead}

\* The name is "all" in some letter case.
IsAllName(t) ==
  Len(t) = 3 /\ t[1] \in {"a", "A"} /\ t[2] \in {"l", "L"} /\ t[3] \in {"l", "L"}

RequestsRestricted ==
  \E i \in 1..Len(cfg.EventTypes) : IsRestrictedName(cfg.EventTypes[i])

RequestsAll == \E i \in 1..Len(cfg.EventTypes) : IsAllName(cfg.EventTypes[i])

\* The process has exited with status 1 before the goroutine was started:
\* no watch, no accepted event, no call.
ExitedBeforeLoop ==
  /\ mainPc = "exited" /\ exitCode = 1
  /\ loopPc = "idle" /\ watches = {} /\ accepted = <<>> /\ calls = <<>>

C10_AllAnywhere ==
  (mainPc # "start" /\ RequestsAll) =>
    /\ mainPc = "setup" /\ exitCode = -1
    /\ allowedEvents =
         {Create, Write, Remove, Rename, Chmod} \cup
         (IF goos \in {"linux", "freebsd"}
          THEN {OpOpen, OpRead, OpCloseWrite, OpCloseRead} ELSE {})

\* "ALL" in upper case after a restricted name, on a platform without the
\* restricted kinds.
C10_Witness ==
  /\ mainPc = "setup"
  /\ goos = "darwin"
  /\ Len(cfg.EventTypes) = 2
  /\ IsRestrictedName(cfg.EventTypes[1])
  /\ cfg.EventTypes[2] = <<"A", "L", "L">>
  /\ allowedEvents = PortableKinds

\* The name is one processEventTypes knows, in any letter case.
IsKnownName(t) ==
  ToLower(t) \in {StrAll, StrCreate, StrWrite, StrRemove, StrRename, StrChmod,
                  StrOpen, StrRead, StrCloseWrite, StrCloseRead}

\* The requested names without the unknown ones.
KnownNames == SelectSeq(cfg.EventTypes, IsKnownName)

\* C11: unknown names neither abort the resolution nor add a kind: what
\* processEventTypes does for the list (the set it returns, or the exit) is
\* what it does for the list without its unknown names, and a list of
\* unknown names only gives the empty set without exit.
C11_UnknownIgnored ==
  mainPc # "start" =>
    LET r == processEventTypes(KnownNames, goos)
    IN /\ (mainPc = "exited") = r.exit
       /\ ~r.exit => (mainPc = "setup" /\ allowedEvents = r.lookup)
       /\ KnownNames = <<>> => (mainPc = "setup" /\ allowedEvents = {})

\* An unknown name before a known one: only the known one's kind is allowed.
C11_Witness ==
  /\ mainPc = "setup"
  /\ Len(cfg.EventTypes) = 2
  /\ ~IsKnownName(cfg.EventTypes[1])
  /\ cfg.EventTypes[1] # <<>>
  /\ cfg.EventTypes[2] = StrWrite
  /\ allowedEvents = {Write}

\* ------------------------------------------------------------------------
\* The handling of one notification on its own: the goroutine in its select
\* after the setup, with one notification on watcher.Events, for the
\* configurations and notifications below
\* ------------------------------------------------------------------------
FilterPatternLists ==
  { <<>>, <<PatGo>>, <<PatStar>>, <<PatBad>>, <<PatBad, PatGo>>,
    <<PatGo, PatBad>>, <<PatGo, PatStar>>, <<PatConfYaml>> }

FilterTypeLists ==
  { <<>>, <<StrWrite>>, <<StrCreate>>, <<StrCreate, StrWrite>>, <<StrAll>> }

FilterNames == {NameBGo, NameSub, NameConfApp, NameTwoDots}

FilterOps == {{Write}, {Create}, {Create, Write}, {Remove}}

FilterNotifications ==
  { [Name |-> nm, Op |-> op, Stat |-> st, ReadDir |-> ReadDirError] :
      nm \in FilterNames, op \in FilterOps, st \in StatResults \ {"dir"} }
  \cup
  { [Name |-> nm, Op |-> op, Stat |-> "dir", ReadDir |-> rd] :
      nm \in FilterNames, op \in FilterOps, rd \in ReadDirResults }

InitFilter ==
  \E pats \in FilterPatternLists, types \in FilterTypeLists, rec \in BOOLEAN,
     d \in Delays, n \in FilterNotifications :
    /\ cfg = [Patterns |-> pats, EventTypes |-> types, Recursive |-> rec,
              DebounceDelay |-> d, WatchDirs |-> <<<<".">>>>,
              ExcludeDirs |-> <<>>,
              CommandTmpl |-> TmplMake]
    /\ goos = "linux"
    /\ fs = NoFaults
    /\ mainPc = "wait"
    /\ allowedEvents = processEventTypes(types, "linux").lookup
    /\ watches = {<<".">>}
    /\ loopPc = "select"
    /\ execFrom = Nil
    /\ scanTodo = <<>>
    /\ debounceTimer = NoTimer
    /\ timerC = FALSE
    /\ lastEventData = 0
    /\ evQueue = <<n>>
    /\ evClosed = FALSE
    /\ errQueue = 0
    /\ errClosed = FALSE
    /\ now = 0
    /\ nInjected = 1
    /\ nErrors = 0
    /\ exitCode = -1
    /\ accepted = <<>>
    /\ calls = <<>>
    /\ running = 0

NextFilter == RecvEvent \/ ExecReturn \/ Tick \/ TimerExpire \/ TimerFired

SpecFilter == InitFilter /\ [][NextFilter]_vars

\* The step is a receive from watcher.Events.
ReceiveStep ==
  loopPc = "select" /\ Len(evQueue) > 0 /\ Len(evQueue') < Len(evQueue)

\* The notification is a directory creation of recursive mode.
IsDirCreate(e) == cfg.Recursive /\ Create \in e.Op /\ e.Stat = "dir"

\* Some kind of the notification is allowed.
KindAllowed(e) == e.Op \cap allowedEvents # {}

\* The name matches some configured pattern.
MatchedBy(name) ==
  \E i \in 1..Len(cfg.Patterns) :
    LET m == Match(cfg.Patterns[i], name) IN m.match /\ ~m.err

\* The EventData accepted in the step, in order.
NewData ==
  [i \in 1..(Len(accepted') - Len(accepted)) |-> accepted'[Len(accepted) + i].data]

\* C12: a notification handed to filterEvent is accepted if and only if one
\* of its kinds is allowed and the base name of its path matches a pattern;
\* the accepted EventData carries its path, base name and one of its allowed
\* kinds, and a notification without an allowed kind changes nothing.
C12_FilterIff ==
  [][ (ReceiveStep /\ ~IsDirCreate(Head(evQueue))) =>
        LET e == Head(evQueue) IN
        /\ Len(NewData) \in {0, 1}
        /\ (Len(NewData) = 1) <=> (KindAllowed(e) /\ MatchedBy(Base(e.Name)))
        /\ Len(NewData) = 1 =>
             /\ NewData[1].Path = e.Name
             /\ NewData[1].Name = Base(e.Name)
             /\ NewData[1].Event \in e.Op \cap allowedEvents
        /\ ~KindAllowed(e) =>
             UNCHANGED <<accepted, calls, lastEventData, debounceTimer, watches>>
    ]_vars

\* A notification was accepted under a malformed pattern followed by one
\* that matches.
C12_Witness ==
  /\ cfg.Patterns = <<PatBad, PatGo>>
  /\ Len(accepted) = 1
  /\ accepted[1].data.Path = NameBGo
  /\ accepted[1].data.Event = Write

\* C13: under the pattern config/*.yaml a notification for config/app.yaml
\* with an allowed kind is accepted by the filter and the command triggered.
C13_PathPatternAccepted ==
  [][ ( /\ ReceiveStep
        /\ cfg.Patterns = <<PatConfYaml>>
        /\ cfg.DebounceDelay = 0
        /\ Head(evQueue).Name = NameConfApp
        /\ ~IsDirCreate(Head(evQueue))
        /\ KindAllowed(Head(evQueue)) ) =>
        (Len(NewData) = 1 /\ Len(calls') = Len(calls) + 1)
    ]_vars

\* C14: a directory creation of recursive mode is not handed to filterEvent:
\* no EventData for the path of the directory is accepted or passed to
\* execFunc, whatever the allowed kinds and the patterns, and also when
\* watcher.Add or os.ReadDir fails.
C14_DirCreateSuppressed ==
  [][ (ReceiveStep /\ IsDirCreate(Head(evQueue))) =>
        LET e == Head(evQueue) IN
        /\ \A i \in 1..Len(NewData) :
             NewData[i].Path # e.Name /\ NewData[i].Dir = e.Name
        /\ \A j \in (Len(calls) + 1)..Len(calls') :
             accepted'[calls'[j].ptr].data.Path # e.Name
        /\ lastEventData' # 0 /\ lastEventData' # lastEventData =>
             accepted'[lastEventData'].data.Path # e.Name
        /\ e.ReadDir.err => UNCHANGED <<accepted, calls, lastEventData>>
    ]_vars

\* A directory whose name matches a pattern was created with Create allowed:
\* it got its watch and its entries their events, and no event is for it.
C14_Witness ==
  /\ cfg.Recursive /\ cfg.Patterns = <<PatStar>> /\ Create \in allowedEvents
  /\ NameSub \in watches
  /\ Len(accepted) = 3 /\ Len(calls) = 3
  /\ \A i \in 1..Len(accepted) : accepted[i].data.Path # NameSub

\* The entries of the new directory an event is due for.
WantedEntries(e) ==
  SelectSeq(e.ReadDir.entries, LAMBDA x : ~x.IsDir /\ MatchedBy(x.Name))

\* C15: the scan of a new directory synthesizes exactly one CREATE event for
\* each entry that is not a directory and matches a pattern, in the order of
\* the entries, and nothing else; with a delay of zero the events wait in
\* order for the return of the call before.
C15_ScanSynthesizes ==
  [][ /\ (ReceiveStep /\ IsDirCreate(Head(evQueue))) =>
           LET e    == Head(evQueue)
               want == WantedEntries(e)
               got  == NewData \o scanTodo'
           IN /\ Len(got) = Len(want)
              /\ \A i \in 1..Len(got) :
                   /\ got[i].Path = e.Name \o <<"/">> \o want[i].Name
                   /\ got[i].Name = want[i].Name
                   /\ got[i].Event = "CREATE"
                   /\ got[i].Dir = e.Name
      /\ (loopPc = "exec" /\ scanTodo # <<>> /\ scanTodo' # scanTodo) =>
           NewData \o scanTodo' = scanTodo
    ]_vars

\* Two patterns match c.go and g.go; the subdirectory d.go and f.t give no
\* event.
C15_Witness ==
  /\ cfg.Patterns = <<PatGo, PatStar>>
  /\ Len(accepted) = 3
  /\ accepted[1].data.Path = <<"s", "/", "c", ".", "g", "o">>
  /\ accepted[2].data.Path = <<"s", "/", "f", ".", "t">>
  /\ accepted[3].data.Path = <<"s", "/", "g", ".", "g", "o">>

\* The EventData was built from the notification e: by filterEvent from its
\* path, or by the scan from an entry of the directory it names.
BuiltFrom(ed, e) == ed.Path = e.Name \/ ed.Dir = e.Name

\* C16: the notifications are received in the order of their delivery: the
\* source appends at the end of watcher.Events, the goroutine takes the
\* oldest one and only while it is in the select, so a notification delivered
\* while a callback runs waits and is not dropped; whatever a receive
\* accepts was built from the oldest notification; and with a zero delay the
\* j-th callback is the one for the j-th accepted event.
C16_ArrivalOrder ==
  [][ /\ evQueue' # evQueue =>
           \/ \E n \in Notifications : evQueue' = Append(evQueue, n)
           \/ /\ loopPc = "select"
              /\ evQueue' = Tail(evQueue)
              /\ \A i \in 1..Len(NewData) : BuiltFrom(NewData[i], Head(evQueue))
      /\ cfg.DebounceDelay = 0 =>
           \A j \in 1..Len(calls') : calls'[j].ptr = j
    ]_vars

\* Two notifications, the second one delivered before the callbacks of the
\* first had returned, and the callbacks in the order of delivery.
C16_Witness ==
  /\ cfg.DebounceDelay = 0
  /\ evQueue = <<>>
  /\ Len(calls) = 3
  /\ accepted[1].data.Path = Join(NameSub, NameCGo)
  /\ accepted[2].data.Path = Join(NameSub, NameGGo)
  /\ accepted[3].data.Path = NameBGo
  /\ \A j \in 1..3 : calls[j].ptr = j

\* ------------------------------------------------------------------------
\* The setup of Run on its own: configurations and file-system faults
\* ------------------------------------------------------------------------
\* cfg.WatchDirs, cfg.ExcludeDirs (relative, absolute and unclean spellings)
\* and the faults of the file system.
SetupWatchDirs == {<<DirDot>>, <<DirV, DirA>>, <<DirA, DirVV>>}

SetupExcludeDirs ==
  { <<>>, <<DirV>>, <<DirVV>>, <<DirVX>>, <<DirA, DirV>>,
    <<<<"/", "w", "/", "v">>>>, <<<<".", "/", "v", "/">>>> }

SetupLstatFaults == {{}, {DirDot}, {DirA}, {NameTxt}, {DirV}, {DirVX}}

SetupReadFaults == {{}, {DirDot}, {DirA}, {DirV}}

SetupAddFaults == SUBSET {DirA, DirV}

InitSetup ==
  \E dirs \in SetupWatchDirs, ex \in SetupExcludeDirs, rec \in BOOLEAN,
     le \in SetupLstatFaults, re \in SetupReadFaults, ae \in SetupAddFaults :
    InitWith([Patterns |-> <<PatGo>>, EventTypes |-> <<StrWrite>>,
              Recursive |-> rec, DebounceDelay |-> 0,
              WatchDirs |-> dirs, ExcludeDirs |-> ex,
              CommandTmpl |-> TmplMake],
             "linux", [lstatErr |-> le, readErr |-> re, addErr |-> ae])

NextSetup == RunStart \/ SetupWatches

SpecSetup == InitSetup /\ [][NextSetup]_vars

\* The paths of the tree in the order in which a walk of "." meets them.
WalkOrder == <<DirDot, DirA, NameTxt, DirV, DirVX, DirVV>>

TreePaths == {WalkOrder[i] : i \in 1..Len(WalkOrder)}

Pos(p) == CHOOSE i \in 1..Len(WalkOrder) : WalkOrder[i] = p

\* p is q or lies below q, by whole path components of the absolute paths.
Within(p, q) ==
  LET pe == SplitPath(Abs(p), <<>>)
      qe == SplitPath(Abs(q), <<>>)
  IN Len(qe) <= Len(pe) /\ SubSeq(pe, 1, Len(qe)) = qe

\* d is an excluded directory or lies below one.
InExcluded(d) ==
  \E i \in 1..Len(cfg.ExcludeDirs) : Within(d, cfg.ExcludeDirs[i])

\* The path cannot be accessed: lstat fails on it or it is a directory that
\* cannot be read.
Faulty(p) == p \in fs.lstatErr \/ (p \in TreeDirs /\ p \in fs.readErr)

\* The walk of root r comes to p: p lies in r and no directory between r and
\* p is excluded.
Reached(p, r) ==
  /\ Within(p, r)
  /\ \A q \in TreeDirs : (q # p /\ Within(p, q) /\ Within(q, r)) => ~InExcluded(q)

\* The walk of root r has met an access error when it comes to d.
StoppedBefore(d, r) ==
  \E p \in TreePaths : Reached(p, r) /\ Faulty(p) /\ Pos(p) <= Pos(d)

Roots == {cfg.WatchDirs[i] : i \in 1..Len(cfg.WatchDirs)}

SetupDone == mainPc = "wait" /\ cfg.Recursive

\* C17 as stated: after the recursive setup, every directory under a watch
\* directory that can be accessed, is not excluded and whose registration
\* did not fail has a watch, whatever happened to other paths.
C17_WalkGoesOn ==
  SetupDone =>
    \A r \in Roots : \A d \in TreeDirs :
      (Within(d, r) /\ ~Faulty(d) /\ ~InExcluded(d) /\ d \notin fs.addErr
         /\ (\A q \in TreeDirs : (Within(d, q) /\ Within(q, r)) => ~Faulty(q)))
        => d \in watches

\* C17, amended: an access error ends the walk of that watch directory: the
\* directories the walk visited before it keep their watches, the ones
\* after it get none, and the setup goes on with the next watch directory;
\* a failed registration costs this one watch only; the process does not
\* exit.  So the watches are those of the directories that are not
\* excluded, whose registration succeeded and that the walk of their root
\* reached before any access error.
C17_WalkStopsAtAccessError ==
  SetupDone =>
    /\ exitCode = -1
    /\ watches = {d \in TreeDirs :
                    /\ ~InExcluded(d)
                    /\ d \notin fs.addErr
                    /\ \E r \in Roots : Within(d, r) /\ ~StoppedBefore(d, r)}

\* The walk of "." stopped at the file it could not access: the directories
\* before it are watched, the ones after it are not.
C17_Witness ==
  /\ SetupDone
  /\ cfg.WatchDirs = <<DirDot>> /\ cfg.ExcludeDirs = <<>>
  /\ fs = [lstatErr |-> {NameTxt}, readErr |-> {}, addErr |-> {}]
  /\ watches = {DirDot, DirA}

\* C18: the recursive setup registers no watch on a directory that is an
\* excluded directory or lies below one (absolute paths, whole components);
\* and, when the walk meets no access error and no registration fails, it
\* registers a watch on every other directory under the watch directories,
\* among them the sibling whose name starts with the excluded name.
C18_ExcludedNotWatched ==
  SetupDone =>
    /\ \A d \in watches : ~InExcluded(d)
    /\ fs = NoFaults =>
         \A r \in Roots : \A d \in TreeDirs :
           (Within(d, r) /\ ~InExcluded(d)) => d \in watches

\* v is excluded: neither v nor v/x is watched, the sibling vv is.
C18_Witness ==
  /\ SetupDone
  /\ fs = NoFaults
  /\ cfg.WatchDirs = <<DirDot>> /\ cfg.ExcludeDirs = <<DirV>>
  /\ watches = {DirDot, DirA, DirVV}

\* ------------------------------------------------------------------------
\* The goroutine with the command templates of the model
\* ------------------------------------------------------------------------
TemplateNotifications ==
  { [Name |-> NameBGo, Op |-> {Write}, Stat |-> "file", ReadDir |-> ReadDirError],
    [Name |-> NameSub, Op |-> {Create}, Stat |-> "dir",
     ReadDir |-> [err |-> FALSE,
                  entries |-> <<[Name |-> NameCGo, IsDir |-> FALSE],
                                [Name |-> NameGGo, IsDir |-> FALSE]>>]] }

\* The state after the setup, with two notifications delivered.
InitTemplate ==
  \E tmpl \in Templates, d \in Delays, n1 \in TemplateNotifications,
     n2 \in TemplateNotifications :
    /\ cfg = [Patterns |-> <<PatGo>>, EventTypes |-> <<StrAll>>,
              Recursive |-> TRUE, DebounceDelay |-> d, WatchDirs |-> <<DirDot>>,
              ExcludeDirs |-> <<>>, CommandTmpl |-> tmpl]
    /\ goos = "linux"
    /\ fs = NoFaults
    /\ mainPc = "wait"
    /\ allowedEvents = processEventTypes(<<StrAll>>, "linux").lookup
    /\ watches = {DirDot}
    /\ loopPc = "select"
    /\ execFrom = Nil
    /\ scanTodo = <<>>
    /\ debounceTimer = NoTimer
    /\ timerC = FALSE
    /\ lastEventData = 0
    /\ evQueue = <<n1, n2>>
    /\ evClosed = FALSE
    /\ errQueue = 0
    /\ errClosed = FALSE
    /\ now = 0
    /\ nInjected = 2
    /\ nErrors = 0
    /\ exitCode = -1
    /\ accepted = <<>>
    /\ calls = <<>>
    /\ running = 0

NextTemplate == RecvEvent \/ ExecReturn \/ Tick \/ TimerExpire \/ TimerFired

SpecTemplate == InitTemplate /\ [][NextTemplate]_vars

\* The step is the return of a call of execFunc to the loop.
ReturnStep == running' < running

\* C19: with a command template that does not parse (an unclosed action) or
\* does not render on the event fields (an unknown field), every call of
\* Execute logs the failure and runs no command; the process does not exit
\* and the goroutine does not stop; and the return of a call, whatever
\* Execute did in it, leaves the goroutine in the select with the
\* notifications still to come, the pending event and the timer cleared
\* after the timer case and untouched after the other calls.
C19_TemplateFailureSkipped ==
  /\ [](\A j \in 1..Len(calls) :
          /\ cfg.CommandTmpl = TmplUnclosed =>
               ~calls[j].exe.ran /\ calls[j].exe.log = "parse"
          /\ cfg.CommandTmpl = TmplUnknown =>
               ~calls[j].exe.ran /\ calls[j].exe.log = "render")
  /\ [](exitCode = -1 /\ loopPc # "stopped")
  /\ [][ ReturnStep =>
           /\ loopPc' = "select"
           /\ UNCHANGED <<evQueue, timerC, watches, accepted, calls>>
           /\ IF execFrom = "timer"
              THEN lastEventData' = 0 /\ debounceTimer' = NoTimer
              ELSE UNCHANGED <<lastEventData, debounceTimer>>
       ]_vars

\* Two debounced calls with a template that does not render: both logged,
\* no command run, and after the second the loop selects with the debounce
\* state cleared.
C19_Witness ==
  /\ cfg.CommandTmpl = TmplUnknown
  /\ cfg.DebounceDelay > 0
  /\ Len(calls) = 2
  /\ calls[1].n = 1
  /\ \A j \in 1..2 : ~calls[j].exe.ran /\ calls[j].exe.log = "render"
  /\ loopPc = "select"
  /\ lastEventData = 0
  /\ debounceTimer = NoTimer

\* ------------------------------------------------------------------------
\* Execute on its own: templates and data
\* ------------------------------------------------------------------------
\* The EventData values handed to Execute.
ExecuteData ==
  { FilteredEventData([Name |-> nm, Op |-> {op}], op) :
      nm \in {NameBGo, NameConfApp, NameSub, NameTxt}, op \in {Write, Create} }
  \cup
  { ScannedEventData(NameSub, nm) : nm \in {NameCGo, NameGGo} }

\* Before the call: the template of the configuration and the EventData
\* that exists, if any.
InitExecute ==
  \E tmpl \in Templates,
     acc \in {<<>>} \cup {<<[t |-> 0, data |-> ed, over |-> 0, tick |-> FALSE]>> :
                            ed \in ExecuteData} :
    /\ cfg = [Patterns |-> <<PatGo>>, EventTypes |-> <<StrAll>>,
              Recursive |-> TRUE, DebounceDelay |-> 0, WatchDirs |-> <<DirDot>>,
              ExcludeDirs |-> <<>>, CommandTmpl |-> tmpl]
    /\ goos = "linux"
    /\ fs = NoFaults
    /\ mainPc = "start"
    /\ allowedEvents = {}
    /\ watches = {}
    /\ loopPc = "idle"
    /\ execFrom = Nil
    /\ scanTodo = <<>>
    /\ debounceTimer = NoTimer
    /\ timerC = FALSE
    /\ lastEventData = 0
    /\ evQueue = <<>>
    /\ evClosed = FALSE
    /\ errQueue = 0
    /\ errClosed = FALSE
    /\ now = 0
    /\ nInjected = 0
    /\ nErrors = 0
    /\ exitCode = -1
    /\ accepted = acc
    /\ calls = <<>>
    /\ running = 0

\* Execute(cfg, data), with nil (0) or a pointer to the EventData.
ExecuteCall ==
  /\ calls = <<>>
  /\ \E ptr \in 0..Len(accepted) : calls' = <<CallRecord(ptr, accepted)>>
  /\ UNCHANGED <<cfgVars, mainVars, watches, loopVars, chanVars, now, accepted,
                 running>>

NextExecute == ExecuteCall

SpecExecute == InitExecute /\ [][NextExecute]_vars

\* C20: the call of Execute without event data runs the command, for every
\* well-formed command template, the ones with placeholders included.
C20_RunOnStartExecutes ==
  \A j \in 1..Len(calls) :
    (calls[j].ptr = 0 /\ cfg.CommandTmpl \in {TmplMake, TmplPath, TmplParts})
      => calls[j].exe.ran

\* C21: in every state of the goroutine in which there is a debounce timer
\* (debounceTimer is not nil, counting down or expired), lastEventData holds
\* an event; so the timer case, when it is taken, finds one.
C21_ArmedImpliesPending ==
  /\ ~debounceTimer.nil => lastEventData # 0
  /\ (loopPc = "exec" /\ execFrom = "timer") => calls[Len(calls)].ptr # 0

\* The timer case was taken and found the event stored with the timer.
C21_Witness ==
  /\ Debounce
  /\ loopPc = "exec" /\ execFrom = "timer"
  /\ ~debounceTimer.nil
  /\ lastEventData = Len(accepted)
  /\ calls[Len(calls)].ptr = lastEventData

\* C22: with a delay of zero lastEventData is nil in every state, and after
\* an accepted event was handled (its call has returned) the goroutine is
\* Idle: selecting, without a timer, with nothing stored.
C22_NeverStored ==
  ~Debounce =>
    /\ lastEventData = 0
    /\ (loopPc = "select" /\ Len(accepted) > 0) => Idle

\* C23: with a delay > 0, the step that accepts an event ends with that event
\* (for a directory scan: the last one it accepted) in lastEventData, with
\* the timer counting down to a full delay from now and no tick in its
\* channel, and makes no call of execFunc, whether or not an event was
\* stored before; the event stored before is passed to no call in the step.
C23_AcceptStoresAndArms ==
  [][ (Debounce /\ ReceiveStep /\ Len(NewData) > 0) =>
        /\ lastEventData' = Len(accepted')
        /\ BuiltFrom(accepted'[lastEventData'].data, Head(evQueue))
        /\ debounceTimer' = [nil |-> FALSE, active |-> TRUE,
                             when |-> now + cfg.DebounceDelay]
        /\ ~timerC'
        /\ calls' = calls
        /\ loopPc' = "select"
    ]_vars

\* An event accepted from Idle and, later, one accepted while the first was
\* stored: the second took its place, the timer runs a full delay from the
\* second, and no call was made.
C23_Witness ==
  /\ Debounce
  /\ Len(accepted) = 2
  /\ accepted[1].over = 0
  /\ accepted[2].over = 1
  /\ accepted[2].t > accepted[1].t
  /\ lastEventData = 2
  /\ debounceTimer = [nil |-> FALSE, active |-> TRUE,
                      when |-> accepted[2].t + cfg.DebounceDelay]
  /\ calls = <<>>

\* The step is the timer case of the select: the tick is taken from the
\* channel of the timer and nothing is received from watcher.Events.
TimerStep == loopPc = "select" /\ timerC /\ ~timerC' /\ evQueue' = evQueue

\* The step is the return of the call made by the timer case.
TimerReturnStep == loopPc = "exec" /\ execFrom = "timer" /\ loopPc' = "select"

\* C24: the timer case is taken only with a timer and a stored event; it
\* makes one call of execFunc, with the event stored last; and when that call
\* returns the goroutine is Idle: no timer, no tick, nothing stored, and no
\* further call was made.
C24_TimerCaseFiresStored ==
  [][ /\ TimerStep =>
           /\ ~debounceTimer.nil /\ lastEventData # 0
           /\ lastEventData = Len(accepted)
           /\ Len(calls') = Len(calls) + 1
           /\ SubSeq(calls', 1, Len(calls)) = calls
           /\ calls'[Len(calls')].ptr = lastEventData
           /\ accepted' = accepted
      /\ TimerReturnStep =>
           /\ debounceTimer'.nil /\ lastEventData' = 0 /\ ~timerC'
           /\ calls' = calls
    ]_vars

\* The timer case fired the second of two events, the one stored last, and
\* the call has returned.
C24_Witness ==
  /\ Debounce
  /\ Len(accepted) = 2
  /\ Len(calls) = 1
  /\ calls[1].ptr = 2
  /\ Idle
  /\ ~timerC

\* The deadline of the timer lies within the time the model follows.
DeadlineInRange == debounceTimer.nil \/ debounceTimer.when <= MaxTime

\* C25: with a delay > 0, when the goroutine, the timer runtime and the clock
\* make progress, the calls return and the channels stay open, an event
\* stored in lastEventData does not stay there forever: the timer case
\* passes the stored event to execFunc and the goroutine comes back to Idle
\* (new events in between take the place of the stored one and are fired
\* in its stead).
C25_PendingEventuallyFired ==
  (Debounce /\ lastEventData # 0)
    ~> \/ Idle /\ Len(calls) > 0 /\ calls[Len(calls)].ptr = Len(accepted)
       \/ evClosed \/ errClosed
       \/ ~DeadlineInRange

\* The stored event was fired by the timer case with the channels open.
C25_Witness ==
  /\ Debounce
  /\ Idle
  /\ ~evClosed /\ ~errClosed
  /\ DeadlineInRange
  /\ Len(accepted) > 0
  /\ calls[Len(calls)].ptr = Len(accepted)
  /\ calls[Len(calls)].t >= accepted[Len(accepted)].t + cfg.DebounceDelay

\* C26: the label (Event) of an EventData returned by filterEvent names a
\* kind that the notification has and that is allowed.
C26_LabelIsAllowedKindOfEvent ==
  [][ (ReceiveStep /\ ~IsDirCreate(Head(evQueue))) =>
        \A i \in 1..Len(NewData) :
          /\ NewData[i].Event \in Head(evQueue).Op
          /\ NewData[i].Event \in allowedEvents
    ]_vars

\* Create and Write are allowed, Remove is not: an EventData with the label
\* of an allowed kind was returned.
C26_Witness ==
  /\ allowedEvents = {Create, Write}
  /\ Len(accepted) = 1
  /\ accepted[1].data.Path = NameBGo
  /\ accepted[1].data.Event = Write
  /\ evQueue = <<>>

\* C27: filterEvent has one result for a notification, an allowed set and a
\* list of patterns; in particular one label when the notification has
\* several allowed kinds.
C27_FilterDeterministic ==
  \A i \in 1..Len(evQueue) :
    Cardinality(filterEvent(evQueue[i], allowedEvents, cfg.Patterns)) = 1

\* The names processEventTypes recognizes, each with its kind.
NamedKinds ==
  { <<StrCreate, Create>>, <<StrWrite, Write>>, <<StrRemove, Remove>>,
    <<StrRename, Rename>>, <<StrChmod, Chmod>>, <<StrOpen, OpOpen>>,
    <<StrRead, OpRead>>, <<StrCloseWrite, OpCloseWrite>>,
    <<StrCloseRead, OpCloseRead>> }

\* The strings are equal up to the case of their letters.
EqualFold(a, b) ==
  Len(a) = Len(b) /\ \A i \in 1..Len(a) : LowerChar(a[i]) = LowerChar(b[i])

\* The kinds named, in any letter case, somewhere in the requested list.
RequestedKinds ==
  { nk[2] : nk \in { q \in NamedKinds :
                       \E i \in 1..Len(cfg.EventTypes) :
                         EqualFold(cfg.EventTypes[i], q[1]) } }

\* C28: when no requested name is "all" and the process did not exit, the
\* allowed set is the set of the kinds named in the list, in any letter case:
\* it depends on which names occur, not on their order or number, and it is
\* not empty when a recognized name occurs.
C28_UnionOfRecognized ==
  (mainPc = "setup" /\ ~RequestsAll) =>
    /\ allowedEvents = RequestedKinds
    /\ (\E i \in 1..Len(cfg.EventTypes) : IsKnownName(cfg.EventTypes[i]))
         => allowedEvents # {}

\* Two recognized names, one of them in mixed case: both kinds are allowed.
C28_Witness ==
  /\ mainPc = "setup"
  /\ cfg.EventTypes = <<StrChmod, <<"W", "r", "i", "t", "e">>>>
  /\ allowedEvents = {Chmod, Write}

\* The malformed patterns of the model.
BadPatterns == {PatBad}

\* Some well-formed pattern of the list matches the name.
GoodPatternMatches(name) ==
  \E i \in 1..Len(cfg.Patterns) :
    cfg.Patterns[i] \notin BadPatterns /\ Match(cfg.Patterns[i], name).match

\* C29: with a malformed pattern in the list, a notification with an allowed
\* kind is accepted if and only if a well-formed pattern of the list, before
\* or after the malformed one, matches its base name; the malformed pattern
\* does not end the process or the goroutine.
C29_BadPatternSkipped ==
  [][ (/\ ReceiveStep
       /\ ~IsDirCreate(Head(evQueue))
       /\ KindAllowed(Head(evQueue))
       /\ \E i \in 1..Len(cfg.Patterns) : cfg.Patterns[i] \in BadPatterns) =>
        /\ (Len(NewData) = 1) <=> GoodPatternMatches(Base(Head(evQueue).Name))
        /\ Len(NewData) <= 1
        /\ exitCode' = -1
        /\ loopPc' # "stopped"
    ]_vars

\* The malformed pattern comes first and the one after it matched: the event
\* is stored for the debounce timer.
C29_Witness ==
  /\ cfg.Patterns = <<PatBad, PatGo>>
  /\ Debounce
  /\ Len(accepted) = 1
  /\ accepted[1].data.Name = NameBGo
  /\ accepted[1].data.Event = Create
  /\ lastEventData = 1

\* The EventData has the base name of its path as Name, and Name split at
\* its last dot into BaseName and Ext.
WellSplit(d) ==
  /\ HasSuffix(d.Path, d.Name)
  /\ ~Contains(d.Name, Sep)
  /\ Len(d.Path) = Len(d.Name) \/ d.Path[Len(d.Path) - Len(d.Name)] = Sep
  /\ d.BaseName \o d.Ext = d.Name
  /\ IF Contains(d.Name, ".")
     THEN d.Ext[1] = "." /\ ~Contains(Tail(d.Ext), ".")
     ELSE d.Ext = <<>>

\* C30: in every EventData, from filterEvent or from the directory scan,
\* Name is the base name of Path, Ext is the suffix of Name from its last
\* dot (empty without a dot) and BaseName is Name without that suffix.
C30_NameExtBaseName ==
  \A i \in 1..Len(accepted) : WellSplit(accepted[i].data)

\* A filtered event for a name with two dots: the extension is the part
\* from the last one.
C30_Witness ==
  /\ Len(accepted) = 1
  /\ accepted[1].data.Path = NameTwoDots
  /\ accepted[1].data.Name = NameTwoDots
  /\ accepted[1].data.Ext = <<".", "g", "o">>
  /\ accepted[1].data.BaseName = <<"a", ".", "b">>

\* C31: the events of the scan of a new directory follow the debounce policy
\* of filtered events.  With a delay of zero the first matching entry is
\* passed to execFunc at once and, while entries of the scan remain, no
\* notification is received and the next call is for the next entry.  With a
\* delay > 0 the receive makes no call, every matching entry takes the place
\* of the one before it, the timer is armed for a full delay from now, the
\* last entry is the stored one, and an entry that was replaced is never
\* passed to execFunc.
C31_ScanFollowsDebounce ==
  [][ /\ (ReceiveStep /\ IsDirCreate(Head(evQueue))
          /\ WantedEntries(Head(evQueue)) # <<>>) =>
           LET k == Len(WantedEntries(Head(evQueue))) IN
           IF Debounce
           THEN /\ calls' = calls
                /\ loopPc' = "select"
                /\ Len(accepted') = Len(accepted) + k
                /\ lastEventData' = Len(accepted')
                /\ \A i \in (Len(accepted) + 2)..Len(accepted') :
                     accepted'[i].over = i - 1
                /\ ~debounceTimer'.nil
                /\ debounceTimer'.when = now + cfg.DebounceDelay
                /\ ~timerC'
           ELSE /\ loopPc' = "exec"
                /\ Len(accepted') = Len(accepted) + 1
                /\ calls' = Append(calls, CallRecord(Len(accepted'), accepted'))
                /\ Len(scanTodo') = k - 1
                /\ UNCHANGED <<debounceTimer, timerC, lastEventData>>
      /\ (loopPc = "exec" /\ scanTodo # <<>>) =>
           /\ Len(evQueue') >= Len(evQueue)
           /\ calls' # calls =>
                /\ Len(accepted') = Len(accepted) + 1
                /\ accepted'[Len(accepted')].data = Head(scanTodo)
                /\ calls' = Append(calls, CallRecord(Len(accepted'), accepted'))
      /\ Debounce =>
           \A i \in 1..(Len(accepted) - 1) :
             accepted[i + 1].over = i => CallsOf(i) = {}
    ]_vars

\* With a delay > 0 a new directory with two matching files had one call of
\* execFunc, with the file enumerated last.
C31_Witness ==
  /\ Debounce
  /\ Idle
  /\ nInjected = 1
  /\ Len(accepted) = 2
  /\ accepted[1].data.Name = NameCGo
  /\ accepted[2].data.Name = NameGGo
  /\ CallPtrs = <<2>>

\* C32: when watcher.Add fails for the new directory the goroutine goes on:
\* the directory has no watch, the scan still gives the events of its
\* matching entries, and neither the goroutine nor the program stops.
C32_AddFailureNotFatal ==
  [][ (ReceiveStep /\ IsDirCreate(Head(evQueue))
        /\ Head(evQueue).Name \notin watches') =>
        /\ watches' = watches
        /\ Len(NewData \o scanTodo') = Len(WantedEntries(Head(evQueue)))
        /\ \A i \in 1..Len(NewData) : NewData[i].Dir = Head(evQueue).Name
        /\ loopPc' \in {"select", "exec"}
        /\ mainPc' = mainPc
        /\ exitCode' = exitCode
    ]_vars

\* The directory s has no watch, its two matching files were accepted, and
\* the notification after it was handled too.
C32_Witness ==
  /\ NameSub \notin watches
  /\ Len(accepted) = 3
  /\ accepted[1].data.Dir = NameSub
  /\ accepted[2].data.Dir = NameSub
  /\ accepted[3].data.Path = NameBGo
  /\ loopPc # "stopped"

\* C33: the goroutine never calls execFunc with a nil EventData: every call,
\* from the immediate path, from the timer case or from the scan of a new
\* directory, is passed an EventData, and Execute renders the command with
\* it.
C33_NeverNilData ==
  /\ \A j \in 1..Len(calls) :
       /\ calls[j].ptr # 0
       /\ calls[j].exe = Execute(cfg.CommandTmpl, TRUE,
                                 accepted[calls[j].ptr].data)
  /\ loopPc = "exec" => execFrom \in {"event", "timer", "scan"}

\* A call from the immediate path and after it a call from the scan, each
\* with its event.
C33_Witness ==
  /\ Len(calls) = 2
  /\ loopPc = "exec" /\ execFrom = "scan"
  /\ calls[1].ptr = 1 /\ accepted[1].data.Path = NameBGo
  /\ calls[2].ptr = 2 /\ accepted[2].data.Dir = NameSub

\* C34: every call of execFunc is passed an EventData whose Event names an
\* allowed kind; when Create is not allowed no call is passed a CREATE
\* event, also after a directory was created in recursive mode.
C34_LabelAllowed ==
  \A j \in 1..Len(calls) :
    calls[j].ptr # 0 => accepted[calls[j].ptr].data.Event \in allowedEvents

\* ------------------------------------------------------------------------
\* Excluded directories and the notifications after the setup
\* ------------------------------------------------------------------------
\* The values of cfg.ExcludeDirs: none, the directory s that is created
\* while the program runs, and the directory v of the tree.
WatchExcludeDirs == {<<>>, <<NameSub>>, <<DirV>>}

\* Run in recursive mode on ".", with the excluded directories, from its
\* start; the notifications come after the setup.
InitExclude ==
  \E ex \in WatchExcludeDirs, d \in Delays :
    InitWith([Patterns |-> <<PatGo>>, EventTypes |-> <<StrAll>>,
              Recursive |-> TRUE, DebounceDelay |-> d,
              WatchDirs |-> <<DirDot>>, ExcludeDirs |-> ex,
              CommandTmpl |-> TmplMake], "linux", NoFaults)

NextExclude ==
  \/ RunStart
  \/ SetupWatches
  \/ Notify
  \/ RecvEvent
  \/ ExecReturn
  \/ Tick
  \/ TimerExpire
  \/ TimerFired

SpecExclude == InitExclude /\ [][NextExclude]_vars

\* C35: in recursive mode no directory that is an excluded directory or lies
\* under one has a watch, in any state: after the setup, and after any
\* notification, also one for a directory created at an excluded path.
C35_NoWatchUnderExcluded ==
  cfg.Recursive => \A d \in watches : ~InExcluded(d)

\* C36: every call of execFunc is passed an event that had been accepted,
\* by filterEvent or by the scan, when the call was made; no accepted event
\* is passed to two calls; so there are never more calls than accepted
\* events.
C36_CallsCarryAcceptedOnce ==
  /\ \A j \in 1..Len(calls) :
       /\ calls[j].ptr \in 1..calls[j].n
       /\ calls[j].n <= Len(accepted)
  /\ \A i \in 1..Len(accepted) : Cardinality(CallsOf(i)) <= 1
  /\ Len(calls) <= Len(accepted)

\* Three accepted events, a filtered one and two of a scan, of which the
\* first and the last were passed to a call and the second to none.
C36_Witness ==
  /\ Debounce
  /\ Idle
  /\ Len(accepted) = 3
  /\ accepted[1].data.Path = NameBGo
  /\ accepted[3].data.Dir = NameSub
  /\ CallPtrs = <<1, 3>>

\* ------------------------------------------------------------------------
\* A notification that filterEvent rejects, behind one that it accepts
\* ------------------------------------------------------------------------
\* The second notification: accepted like the first one, of a kind that is
\* not allowed, with a name that no pattern matches, or both.
RejectNotifications ==
  { [Name |-> nm, Op |-> op, Stat |-> "file", ReadDir |-> ReadDirError] :
      nm \in {NameBGo, NameTxt}, op \in {{Write}, {Remove}, {Create, Remove}} }

\* The state after the setup with write allowed, the pattern *.go, and two
\* notifications delivered: a write of b.go and one of RejectNotifications.
InitReject ==
  \E rec \in BOOLEAN, d \in Delays, n \in RejectNotifications :
    /\ cfg = [Patterns |-> <<PatGo>>, EventTypes |-> <<StrWrite>>,
              Recursive |-> rec, DebounceDelay |-> d, WatchDirs |-> <<DirDot>>,
              ExcludeDirs |-> <<>>, CommandTmpl |-> TmplMake]
    /\ goos = "linux"
    /\ fs = NoFaults
    /\ mainPc = "wait"
    /\ allowedEvents = processEventTypes(<<StrWrite>>, "linux").lookup
    /\ watches = {DirDot}
    /\ loopPc = "select"
    /\ execFrom = Nil
    /\ scanTodo = <<>>
    /\ debounceTimer = NoTimer
    /\ timerC = FALSE
    /\ lastEventData = 0
    /\ evQueue = <<[Name |-> NameBGo, Op |-> {Write}, Stat |-> "file",
                    ReadDir |-> ReadDirError], n>>
    /\ evClosed = FALSE
    /\ errQueue = 0
    /\ errClosed = FALSE
    /\ now = 0
    /\ nInjected = 2
    /\ nErrors = 0
    /\ exitCode = -1
    /\ accepted = <<>>
    /\ calls = <<>>
    /\ running = 0

NextReject == RecvEvent \/ ExecReturn \/ Tick \/ TimerExpire \/ TimerFired

SpecReject == InitReject /\ [][NextReject]_vars

\* C37: a notification that filterEvent rejects, for its kinds or for its
\* name, changes neither the debounce state nor the watches: the stored
\* event, the timer with its deadline and its tick stay as they are, no
\* event is accepted and no call of execFunc is made.
C37_RejectedChangesNothing ==
  [][ (ReceiveStep /\ ~IsDirCreate(Head(evQueue))
        /\ ~(KindAllowed(Head(evQueue))
              /\ MatchedBy(Base(Head(evQueue).Name)))) =>
        UNCHANGED <<loopPc, execFrom, scanTodo, debounceTimer, timerC,
                    lastEventData, watches, accepted, calls, running>>
    ]_vars

\* The second notification was rejected after the first one had been stored
\* for a while: the first is still stored, its timer still counts to the
\* delay after its acceptance, and no call was made.
C37_Witness ==
  /\ Debounce
  /\ evQueue = <<>>
  /\ Len(accepted) = 1
  /\ lastEventData = 1
  /\ now > accepted[1].t
  /\ now < debounceTimer.when
  /\ ~debounceTimer.nil /\ ~timerC
  /\ debounceTimer.when = accepted[1].t + cfg.DebounceDelay
  /\ calls = <<>>

\* The goroutine is in the select with an event stored and a timer for it,
\* and watcher.Events or watcher.Errors is closed.
PendingClosed ==
  /\ Debounce
  /\ loopPc = "select"
  /\ evClosed \/ errClosed
  /\ lastEventData # 0
  /\ ~debounceTimer.nil

\* C38 (as stated): when a channel is closed while an event is stored and
\* its timer armed, no call of execFunc is made any more: the goroutine
\* returns and the stored event is never passed to execFunc.
C38_ClosedPendingNeverFired ==
  [][ PendingClosed => calls' = calls ]_vars

\* C38 (amended): the case of the closed channel returns from the goroutine
\* without a call of execFunc and leaves the stored event as it is; after
\* the return no call is made, so the event stored at the return is passed
\* to no call.  While the channel is closed and the goroutine still in the
\* select, the only call it can make is the one of the timer case, for a
\* tick that waits in the timer's channel.
C38_ClosedCaseDiscardsPending ==
  [][ /\ (loopPc = "select" /\ loopPc' = "stopped") =>
           /\ evClosed \/ errClosed
           /\ calls' = calls
           /\ UNCHANGED <<lastEventData, debounceTimer, timerC, accepted>>
      /\ loopPc = "stopped" => (loopPc' = "stopped" /\ calls' = calls)
      /\ (Debounce /\ loopPc = "stopped" /\ lastEventData # 0) =>
           CallsOf(lastEventData) = {}
      /\ (PendingClosed /\ calls' # calls) =>
           /\ timerC
           /\ execFrom' = "timer"
           /\ calls'[Len(calls')].ptr = lastEventData
    ]_vars

\* Run has returned after a channel was closed while an event was stored
\* with its timer still counting; no call was made for that event.
C38_Witness ==
  /\ Debounce
  /\ mainPc = "returned"
  /\ loopPc = "stopped"
  /\ evClosed \/ errClosed
  /\ lastEventData = Len(accepted)
  /\ lastEventData # 0
  /\ ~debounceTimer.nil /\ debounceTimer.active /\ ~timerC
  /\ CallsOf(lastEventData) = {}

====
